---------------------------- MODULE Spec2Model ----------------------------
(***************************************************************************)
(* Model of the service-control backend of systemd-pilot:                  *)
(*   src/src/service_manager.rs  (ServiceStatus, ServiceManager,           *)
(*                                RemoteServiceManager)                    *)
(* Text is a sequence of characters; a character is a one-letter string.   *)
(***************************************************************************)
EXTENDS Integers, Sequences, FiniteSets, TLC

VARIABLES
    pc,            \* position of the call under study: "call" or "done"
    in_lines,      \* the lines the input text was built from (word lists)
    output,        \* the text handed to the parser (command stdout)
    service_name,  \* the service_name argument of parse_service_status
    result,        \* the value the call returned
    tasks,         \* per task: the operation it runs and where it stands
    connected,     \* per remote host: has a connect() succeeded
    call,          \* the operation called and its arguments
    issued,        \* the commands the call has handed to its executor so far
    outcomes,      \* how each issued command ended on its host
    is_dark_mode,  \* ThemeManager::is_dark_mode
    theme_log,     \* the ThemeManager operations performed so far
    host,          \* the RemoteHost under study
    children,      \* per issued local command: the state of its child process
    local_services_store,  \* the rows of SystemdPilotApp::local_services_store
    remote_hosts,  \* SystemdPilotApp::remote_hosts, a map from keys to hosts
    dialog         \* the host dialog that is open, if any

cmd_vars == <<call, issued, outcomes>>

ui_vars == <<is_dark_mode, theme_log, host>>

app_vars == <<children, local_services_store, remote_hosts, dialog>>

vars == <<pc, in_lines, output, service_name, result, tasks, connected, cmd_vars, ui_vars, app_vars>>

\* the variables of the command calls, of the theme and of the host, unused
NoCmd == call = <<>> /\ issued = <<>> /\ outcomes = <<>>

NoUi == is_dark_mode = FALSE /\ theme_log = <<>> /\ host = <<>>

NoApp ==
    children = <<>> /\ local_services_store = <<>> /\ remote_hosts = <<>> /\ dialog = <<>>

(***************************************************************************)
(* Characters and the std string functions the parsers use.                *)
(***************************************************************************)
UpperLetters ==
    <<"A","B","C","D","E","F","G","H","I","J","K","L","M",
      "N","O","P","Q","R","S","T","U","V","W","X","Y","Z">>

LowerLetters ==
    <<"a","b","c","d","e","f","g","h","i","j","k","l","m",
      "n","o","p","q","r","s","t","u","v","w","x","y","z">>

\* char::is_whitespace, on the characters the inputs can hold
is_whitespace(c) == c \in {" ", "\t", "\n", "\r"}

\* char::to_lowercase
char_to_lowercase(c) ==
    IF \E i \in 1..26 : UpperLetters[i] = c
    THEN LowerLetters[CHOOSE i \in 1..26 : UpperLetters[i] = c]
    ELSE c

\* str::to_lowercase
to_lowercase(s) == [i \in 1..Len(s) |-> char_to_lowercase(s[i])]

\* str::starts_with
starts_with(s, p) == Len(s) >= Len(p) /\ SubSeq(s, 1, Len(p)) = p

\* str::ends_with
ends_with(s, p) == Len(s) >= Len(p) /\ SubSeq(s, Len(s) - Len(p) + 1, Len(s)) = p

\* the first position of s that satisfies the test, Len(s) + 1 when none does
first_ws(s) ==
    IF \E i \in 1..Len(s) : is_whitespace(s[i])
    THEN CHOOSE i \in 1..Len(s) : is_whitespace(s[i]) /\ \A j \in 1..(i - 1) : ~is_whitespace(s[j])
    ELSE Len(s) + 1

first_non_ws(s) ==
    IF \E i \in 1..Len(s) : ~is_whitespace(s[i])
    THEN CHOOSE i \in 1..Len(s) : ~is_whitespace(s[i]) /\ \A j \in 1..(i - 1) : is_whitespace(s[j])
    ELSE Len(s) + 1

last_non_ws(s) ==
    IF \E i \in 1..Len(s) : ~is_whitespace(s[i])
    THEN CHOOSE i \in 1..Len(s) : ~is_whitespace(s[i]) /\ \A j \in (i + 1)..Len(s) : is_whitespace(s[j])
    ELSE 0

\* str::trim_start
trim_start(s) == SubSeq(s, first_non_ws(s), Len(s))

\* str::trim_end
trim_end(s) == SubSeq(s, 1, last_non_ws(s))

\* str::trim
trim(s) == trim_end(trim_start(s))

\* str::trim_end_matches with a string pattern: strips the pattern from the
\* end repeatedly, as long as the string still ends with it
RECURSIVE trim_end_matches_all(_, _)
trim_end_matches_all(s, pat) ==
    IF pat # <<>> /\ ends_with(s, pat)
    THEN trim_end_matches_all(SubSeq(s, 1, Len(s) - Len(pat)), pat)
    ELSE s

\* a single strip (str::strip_suffix semantics); what a one-shot strip would do
trim_end_matches_once(s, pat) ==
    IF pat # <<>> /\ ends_with(s, pat)
    THEN SubSeq(s, 1, Len(s) - Len(pat))
    ELSE s

trim_end_matches(s, pat) == trim_end_matches_all(s, pat)

\* str::lines: split at "\n", a "\r" just before the "\n" is dropped, and a
\* final line needs no line ending
strip_cr(l) ==
    IF l # <<>> /\ l[Len(l)] = "\r" THEN SubSeq(l, 1, Len(l) - 1) ELSE l

first_newline(s) ==
    IF \E i \in 1..Len(s) : s[i] = "\n"
    THEN CHOOSE i \in 1..Len(s) : s[i] = "\n" /\ \A j \in 1..(i - 1) : s[j] # "\n"
    ELSE Len(s) + 1

RECURSIVE lines(_)
lines(s) ==
    IF s = <<>> THEN <<>>
    ELSE LET i == first_newline(s)
         IN  IF i > Len(s) THEN <<s>>
             ELSE <<strip_cr(SubSeq(s, 1, i - 1))>> \o lines(SubSeq(s, i + 1, Len(s)))

\* str::split_whitespace: the maximal runs of non-whitespace characters
RECURSIVE split_whitespace(_)
split_whitespace(s) ==
    LET t == trim_start(s)
    IN  IF t = <<>> THEN <<>>
        ELSE LET e == first_ws(t)
             IN  <<SubSeq(t, 1, e - 1)>> \o split_whitespace(SubSeq(t, e, Len(t)))

\* [&str]::join
RECURSIVE join(_, _)
join(parts, sep) ==
    IF parts = <<>> THEN <<>>
    ELSE IF Len(parts) = 1 THEN parts[1]
    ELSE parts[1] \o sep \o join(Tail(parts), sep)

\* Option<T>
None == <<>>
Some(x) == <<x>>

\* str::rsplit_once('='): the parts before and after the last '='
rsplit_once(s, c) ==
    IF \E i \in 1..Len(s) : s[i] = c
    THEN LET i == CHOOSE k \in 1..Len(s) : s[k] = c /\ \A j \in (k + 1)..Len(s) : s[j] # c
         IN Some(<<SubSeq(s, 1, i - 1), SubSeq(s, i + 1, Len(s))>>)
    ELSE None

\* str::split_once('='): the parts before and after the first '='
split_once(s, c) ==
    IF \E i \in 1..Len(s) : s[i] = c
    THEN LET i == CHOOSE k \in 1..Len(s) : s[k] = c /\ \A j \in 1..(k - 1) : s[j] # c
         IN Some(<<SubSeq(s, 1, i - 1), SubSeq(s, i + 1, Len(s))>>)
    ELSE None

(***************************************************************************)
(* The string literals of the source.                                      *)
(***************************************************************************)
lit_UNIT == <<"U","N","I","T">>
lit_LOAD == <<"L","O","A","D">>
lit_service_suffix == <<".","s","e","r","v","i","c","e">>
lit_active == <<"a","c","t","i","v","e">>
lit_inactive == <<"i","n","a","c","t","i","v","e">>
lit_failed == <<"f","a","i","l","e","d">>
lit_unknown == <<"u","n","k","n","o","w","n">>
lit_enabled == <<"e","n","a","b","l","e","d">>
key_ActiveState == <<"A","c","t","i","v","e","S","t","a","t","e">>
key_SubState == <<"S","u","b","S","t","a","t","e">>
key_LoadState == <<"L","o","a","d","S","t","a","t","e">>
key_UnitFileState == <<"U","n","i","t","F","i","l","e","S","t","a","t","e">>
key_Description == <<"D","e","s","c","r","i","p","t","i","o","n">>
fmt_Active == <<"A","c","t","i","v","e">>
fmt_Inactive == <<"I","n","a","c","t","i","v","e">>
fmt_Failed == <<"F","a","i","l","e","d">>
fmt_Unknown == <<"U","n","k","n","o","w","n">>

(***************************************************************************)
(* ServiceStatus: the enum, its Display and its From<&str>.                *)
(***************************************************************************)
ServiceStatus == {"Active", "Inactive", "Failed", "Unknown"}

\* a Display that writes the lower-case word
ServiceStatus_fmt_lowercase(st) ==
    CASE st = "Active"   -> lit_active
      [] st = "Inactive" -> lit_inactive
      [] st = "Failed"   -> lit_failed
      [] st = "Unknown"  -> lit_unknown

\* impl fmt::Display for ServiceStatus
ServiceStatus_fmt(st) ==
    CASE st = "Active"   -> fmt_Active
      [] st = "Inactive" -> fmt_Inactive
      [] st = "Failed"   -> fmt_Failed
      [] st = "Unknown"  -> fmt_Unknown

\* a From<&str> that compares without lower-casing first
ServiceStatus_from_case_sensitive(status) ==
    CASE status = lit_active   -> "Active"
      [] status = lit_inactive -> "Inactive"
      [] status = lit_failed   -> "Failed"
      [] OTHER                 -> "Unknown"

\* impl From<&str> for ServiceStatus
ServiceStatus_from(status) ==
    LET l == to_lowercase(status)
    IN  CASE l = lit_active   -> "Active"
          [] l = lit_inactive -> "Inactive"
          [] l = lit_failed   -> "Failed"
          [] OTHER            -> "Unknown"

(***************************************************************************)
(* ServiceManager: the two parsers.                                        *)
(***************************************************************************)
Ok(v) == [ok |-> TRUE, value |-> v]
Err(e) == [ok |-> FALSE, error |-> e]

\* ServiceManager::parse_service_line
parse_service_line(line) ==
    LET parts == split_whitespace(line)
    IN  IF Len(parts) < 4 THEN None
        ELSE LET active_state == parts[3]
             IN  Some([name        |-> trim_end_matches(parts[1], lit_service_suffix),
                       status      |-> ServiceStatus_from(active_state),
                       description |-> IF Len(parts) > 4
                                       THEN Some(join(SubSeq(parts, 5, Len(parts)), <<" ">>))
                                       ELSE None,
                       enabled     |-> FALSE,
                       active      |-> (active_state = lit_active),
                       load_state  |-> parts[2],
                       sub_state   |-> parts[4]])

\* a first loop that leaves start_idx past the last line when no line
\* starts with "UNIT"
RECURSIVE find_start_idx_or_end(_, _)
find_start_idx_or_end(ls, i) ==
    IF i > Len(ls) THEN Len(ls)
    ELSE IF starts_with(ls[i], lit_UNIT) THEN i
    ELSE find_start_idx_or_end(ls, i + 1)

\* the first loop of parse_service_list: start_idx is one past the first
\* line that starts with "UNIT", 0 when there is none (i counts from 1)
RECURSIVE find_start_idx(_, _)
find_start_idx(ls, i) ==
    IF i > Len(ls) THEN 0
    ELSE IF starts_with(ls[i], lit_UNIT) THEN i
    ELSE find_start_idx(ls, i + 1)

\* the loop ending at the first row that parse_service_line rejects
RECURSIVE collect_services_stop_at_short(_, _)
collect_services_stop_at_short(ls, i) ==
    IF i > Len(ls) THEN <<>>
    ELSE IF trim(ls[i]) = <<>> \/ starts_with(ls[i], lit_LOAD) THEN <<>>
    ELSE LET service == parse_service_line(ls[i])
         IN  IF service = None THEN <<>>
             ELSE <<service[1]>> \o collect_services_stop_at_short(ls, i + 1)

\* the loop putting each new service in front of the earlier ones
RECURSIVE collect_services_newest_first(_, _)
collect_services_newest_first(ls, i) ==
    IF i > Len(ls) THEN <<>>
    ELSE IF trim(ls[i]) = <<>> \/ starts_with(ls[i], lit_LOAD) THEN <<>>
    ELSE LET service == parse_service_line(ls[i])
         IN  collect_services_newest_first(ls, i + 1)
             \o (IF service = None THEN <<>> ELSE <<service[1]>>)

\* the loop passing over a blank or LOAD line and going on after it
RECURSIVE collect_services_skip_terminators(_, _)
collect_services_skip_terminators(ls, i) ==
    IF i > Len(ls) THEN <<>>
    ELSE IF trim(ls[i]) = <<>> \/ starts_with(ls[i], lit_LOAD)
         THEN collect_services_skip_terminators(ls, i + 1)
    ELSE LET service == parse_service_line(ls[i])
         IN  (IF service = None THEN <<>> ELSE <<service[1]>>)
             \o collect_services_skip_terminators(ls, i + 1)

\* the second loop of parse_service_list, from line i (counted from 1) on
RECURSIVE collect_services(_, _)
collect_services(ls, i) ==
    IF i > Len(ls) THEN <<>>
    ELSE IF trim(ls[i]) = <<>> \/ starts_with(ls[i], lit_LOAD) THEN <<>>
    ELSE LET service == parse_service_line(ls[i])
         IN  (IF service = None THEN <<>> ELSE <<service[1]>>)
             \o collect_services(ls, i + 1)

\* ServiceManager::parse_service_list
parse_service_list(text) ==
    LET ls == lines(text)
        start_idx == find_start_idx(ls, 1)
    IN  Ok(collect_services(ls, start_idx + 1))

\* HashMap::insert and HashMap::get(..).unwrap_or(..)
hashmap_insert(m, k, v) == [x \in (DOMAIN m) \cup {k} |-> IF x = k THEN v ELSE m[x]]
hashmap_get(m, k) == IF k \in DOMAIN m THEN Some(m[k]) ELSE None
\* Option::unwrap_or_default: the empty string in place of the given default
unwrap_or_empty(opt, default) == IF opt = None THEN <<>> ELSE opt[1]

unwrap_or(opt, default) == IF opt = None THEN default ELSE opt[1]

\* the loop of parse_service_status that fills the properties map
RECURSIVE collect_properties(_, _, _)
collect_properties(ls, i, properties) ==
    IF i > Len(ls) THEN properties
    ELSE LET kv == split_once(ls[i], "=")
         IN  IF kv = None THEN collect_properties(ls, i + 1, properties)
             ELSE collect_properties(ls, i + 1,
                      hashmap_insert(properties, trim(kv[1][1]), trim(kv[1][2])))

\* parse_service_status comparing the unit-file state in lower case
parse_service_status_enabled_any_case(name, text) ==
    LET properties == collect_properties(lines(text), 1, <<>>)
        active_state == unwrap_or(hashmap_get(properties, key_ActiveState), lit_unknown)
        sub_state == unwrap_or(hashmap_get(properties, key_SubState), lit_unknown)
        load_state == unwrap_or(hashmap_get(properties, key_LoadState), lit_unknown)
        unit_file_state == unwrap_or(hashmap_get(properties, key_UnitFileState), lit_unknown)
        description == hashmap_get(properties, key_Description)
    IN  Ok([name        |-> name,
            status      |-> ServiceStatus_from(active_state),
            description |-> description,
            enabled     |-> (to_lowercase(unit_file_state) = lit_enabled),
            active      |-> (active_state = lit_active),
            load_state  |-> load_state,
            sub_state   |-> sub_state])

\* ServiceManager::parse_service_status
parse_service_status(name, text) ==
    LET properties == collect_properties(lines(text), 1, <<>>)
        active_state == unwrap_or(hashmap_get(properties, key_ActiveState), lit_unknown)
        sub_state == unwrap_or(hashmap_get(properties, key_SubState), lit_unknown)
        load_state == unwrap_or(hashmap_get(properties, key_LoadState), lit_unknown)
        unit_file_state == unwrap_or(hashmap_get(properties, key_UnitFileState), lit_unknown)
        description == hashmap_get(properties, key_Description)
    IN  Ok([name        |-> name,
            status      |-> ServiceStatus_from(active_state),
            description |-> description,
            enabled     |-> (unit_file_state = lit_enabled),
            active      |-> (active_state = lit_active),
            load_state  |-> load_state,
            sub_state   |-> sub_state])

(***************************************************************************)
(* Inputs of parse_service_list: a listing is built from lines, a line     *)
(* from its words, the whitespace before the first word and the            *)
(* whitespace between two words.                                           *)
(***************************************************************************)
w_UNIT == <<"U","N","I","T">>
w_LOAD == <<"L","O","A","D">>
w_ACTIVE == <<"A","C","T","I","V","E">>
w_SUB == <<"S","U","B">>
w_DESCRIPTION == <<"D","E","S","C","R","I","P","T","I","O","N">>
w_sshd_service == <<"s","s","h","d",".","s","e","r","v","i","c","e">>
w_sshd == <<"s","s","h","d">>
w_foo_service == <<"f","o","o",".","s","e","r","v","i","c","e">>
w_dot_service == <<".","s","e","r","v","i","c","e">>
w_a_service_service == <<"a",".","s","e","r","v","i","c","e",".","s","e","r","v","i","c","e">>
w_loaded == <<"l","o","a","d","e","d">>
w_active == <<"a","c","t","i","v","e">>
w_inactive == <<"i","n","a","c","t","i","v","e">>
w_failed == <<"f","a","i","l","e","d">>
w_Active == <<"A","c","t","i","v","e">>
w_activating == <<"a","c","t","i","v","a","t","i","n","g">>
w_running == <<"r","u","n","n","i","n","g">>
w_dead == <<"d","e","a","d">>
w_OpenSSH == <<"O","p","e","n","S","S","H">>
w_server == <<"s","e","r","v","e","r">>
w_eq == <<"=">>

MaxLines == 3

Line(lead, words, sep) == [lead |-> lead, words |-> words, sep |-> sep]

render_line(l) == l.lead \o join(l.words, l.sep)

RECURSIVE render_lines(_)
render_lines(ls) ==
    IF ls = <<>> THEN <<>>
    ELSE render_line(ls[1]) \o <<"\n">> \o render_lines(Tail(ls))

\* the text of the lines; final_nl says whether the last line is terminated
render_text(ls, final_nl) ==
    LET t == render_lines(ls)
    IN  IF final_nl \/ t = <<>> THEN t ELSE SubSeq(t, 1, Len(t) - 1)

L_header5 == Line(<<>>, <<w_UNIT, w_LOAD, w_ACTIVE, w_SUB, w_DESCRIPTION>>, <<" ">>)
L_header4 == Line(<<>>, <<w_UNIT, w_LOAD, w_ACTIVE, w_SUB>>, <<" ">>)
L_header_indented == Line(<<" "," ">>, <<w_UNIT, w_LOAD, w_ACTIVE, w_SUB>>, <<" ">>)
L_sshd == Line(<<>>, <<w_sshd_service, w_loaded, w_active, w_running, w_OpenSSH, w_server>>, <<" ">>)
L_sshd_again == Line(<<" "," ">>, <<w_sshd_service, w_loaded, w_inactive, w_dead, w_OpenSSH, w_server>>, <<"\t"," ">>)
L_foo_short == Line(<<>>, <<w_foo_service, w_loaded>>, <<" ">>)
L_foo_failed == Line(<<>>, <<w_foo_service, w_loaded, w_failed, w_failed>>, <<" "," ">>)
L_bare_suffix == Line(<<>>, <<w_dot_service, w_loaded, w_active, w_running>>, <<" ">>)
L_double_suffix == Line(<<>>, <<w_a_service_service, w_loaded, w_Active, w_running, w_server>>, <<" ">>)
L_blank == Line(<<>>, <<>>, <<" ">>)
L_spaces == Line(<<" "," ">>, <<>>, <<" ">>)
L_legend == Line(<<>>, <<w_LOAD, w_eq, w_loaded, w_dead, w_server>>, <<" ">>)

ListingPool ==
    {L_header5, L_header4, L_header_indented, L_sshd, L_sshd_again, L_foo_short,
     L_foo_failed, L_bare_suffix, L_double_suffix, L_blank, L_spaces, L_legend}

\* char::to_uppercase
char_to_uppercase(c) ==
    IF \E i \in 1..26 : LowerLetters[i] = c
    THEN UpperLetters[CHOOSE i \in 1..26 : LowerLetters[i] = c]
    ELSE c

\* every letter-casing of a word
RECURSIVE casings(_)
casings(w) ==
    IF w = <<>> THEN {<<>>}
    ELSE {<<c>> \o r : c \in {w[1], char_to_uppercase(w[1])}, r \in casings(Tail(w))}

\* the active-state tokens: every casing of the three known words, and others
TokenPool ==
    casings(lit_active) \cup casings(lit_inactive) \cup casings(lit_failed)
        \cup {lit_unknown, w_activating}

TokenRow(tok) == Line(<<>>, <<w_foo_service, w_loaded, tok, w_running>>, <<" ">>)

SeqsUpTo(S, n) == UNION {[1..k -> S] : k \in 0..n}

ListingInputs ==
    SeqsUpTo(ListingPool, MaxLines) \cup {<<L_header5, TokenRow(tok)>> : tok \in TokenPool}

(***************************************************************************)
(* The call of parse_service_list on a listing.                            *)
(***************************************************************************)
InitList ==
    /\ pc = "call"
    /\ in_lines \in ListingInputs
    /\ output \in {render_text(in_lines, TRUE), render_text(in_lines, FALSE)}
    /\ service_name = <<>>
    /\ result = None
    /\ tasks = <<>>
    /\ connected = <<>>
    /\ NoCmd /\ NoUi
    /\ NoApp

CallParseServiceList ==
    /\ pc = "call"
    /\ result' = parse_service_list(output)
    /\ pc' = "done"
    /\ UNCHANGED <<in_lines, output, service_name, tasks, connected, cmd_vars, ui_vars, app_vars>>

NextList == CallParseServiceList

SpecList == InitList /\ [][NextList]_vars

(***************************************************************************)
(* What the listing claims speak of, read off the lines the text was built *)
(* from: the header, the candidate rows, the rows with four or more        *)
(* fields.                                                                 *)
(***************************************************************************)
line_begins_with(l, w) ==
    l.lead = <<>> /\ l.words # <<>> /\ Len(l.words[1]) >= Len(w)
        /\ \A i \in 1..Len(w) : l.words[1][i] = w[i]

\* the first line that begins with UNIT, 0 when there is none
HeaderIdx ==
    IF \E i \in 1..Len(in_lines) : line_begins_with(in_lines[i], w_UNIT)
    THEN CHOOSE i \in 1..Len(in_lines) :
            /\ line_begins_with(in_lines[i], w_UNIT)
            /\ \A j \in 1..(i - 1) : ~line_begins_with(in_lines[j], w_UNIT)
    ELSE 0

is_terminator(l) == l.words = <<>> \/ line_begins_with(l, w_LOAD)

\* the lines after the header and before the first blank or LOAD line
CandidateIdx ==
    {i \in (HeaderIdx + 1)..Len(in_lines) :
        \A j \in (HeaderIdx + 1)..i : ~is_terminator(in_lines[j])}

ValidIdx == {i \in CandidateIdx : Len(in_lines[i].words) >= 4}

ShortIdx == {i \in CandidateIdx : Len(in_lines[i].words) < 4}

\* the k-th smallest member of a set of numbers
nth(S, k) == CHOOSE i \in S : Cardinality({j \in S : j <= i}) = k

\* word = name followed by k copies of ".service", and name has no such ending
RECURSIVE repeat(_, _)
repeat(w, k) == IF k = 0 THEN <<>> ELSE w \o repeat(w, k - 1)

is_fully_stripped(name, word) ==
    /\ \E k \in 0..Len(word) : word = name \o repeat(w_dot_service, k)
    /\ ~(Len(name) >= Len(w_dot_service)
         /\ SubSeq(name, Len(name) - Len(w_dot_service) + 1, Len(name)) = w_dot_service)

\* word with one ".service" taken from its end, if it ends with one
stripped_once(word) ==
    IF Len(word) >= Len(w_dot_service)
       /\ SubSeq(word, Len(word) - Len(w_dot_service) + 1, Len(word)) = w_dot_service
    THEN SubSeq(word, 1, Len(word) - Len(w_dot_service))
    ELSE word

\* the status a token stands for, by enumeration of its casings
expected_status(tok) ==
    IF tok \in casings(w_active) THEN "Active"
    ELSE IF tok \in casings(w_inactive) THEN "Inactive"
    ELSE IF tok \in casings(w_failed) THEN "Failed"
    ELSE "Unknown"

expected_description(words) ==
    IF Len(words) = 4 THEN None ELSE Some(join(SubSeq(words, 5, Len(words)), <<" ">>))

\* every field of unit u but the name is the one row l gives
fields_match(u, l) ==
    /\ u.load_state = l.words[2]
    /\ u.status = expected_status(l.words[3])
    /\ u.sub_state = l.words[4]
    /\ u.enabled = FALSE
    /\ u.description = expected_description(l.words)

\* C1: for a listing with a header line beginning with UNIT, the parser
\* returns exactly one Unit per candidate row with four or more fields, in
\* the order of the rows, rows with the same name kept apart.
C1_OneUnitPerValidRowInOrder ==
    (pc = "done" /\ HeaderIdx > 0) =>
        /\ result.ok
        /\ Len(result.value) = Cardinality(ValidIdx)
        /\ \A k \in 1..Len(result.value) :
              LET l == in_lines[nth(ValidIdx, k)]
              IN  /\ is_fully_stripped(result.value[k].name, l.words[1])
                  /\ result.value[k].load_state = l.words[2]
                  /\ result.value[k].sub_state = l.words[4]
                  /\ result.value[k].description = expected_description(l.words)

\* a listing with a header and two rows of the same name, both returned
C1_Witness ==
    /\ pc = "done" /\ HeaderIdx > 0
    /\ \E i, j \in ValidIdx : i < j /\ in_lines[i].words[1] = in_lines[j].words[1]
    /\ Len(result.value) >= 2

\* C2: every Unit a parser returns has active = (status = Active), whatever
\* the letter case of the active-state token.
C2_ActiveIffStatusActive ==
    pc = "done" =>
        \A k \in 1..Len(result.value) :
            result.value[k].active = (result.value[k].status = "Active")

\* C4 as stated: the Unit of a row has name = field 0 with the .service
\* suffix stripped, load_state = field 1, status from field 2, sub_state =
\* field 3, enabled = false, description = fields 4.. joined by one space.
C4_FieldMappingStripOnce ==
    pc = "done" =>
        \A k \in 1..Len(result.value) :
            LET l == in_lines[nth(ValidIdx, k)]
            IN  /\ result.value[k].name = stripped_once(l.words[1])
                /\ fields_match(result.value[k], l)

\* C4 as amended: the same mapping, the name being field 0 with every
\* trailing repetition of .service stripped; the header plus the sshd row
\* gives exactly the one Unit sshd, Active, active, Some("OpenSSH server").
C4_FieldMapping ==
    pc = "done" =>
        /\ \A k \in 1..Len(result.value) :
              LET l == in_lines[nth(ValidIdx, k)]
              IN  /\ is_fully_stripped(result.value[k].name, l.words[1])
                  /\ fields_match(result.value[k], l)
        /\ in_lines = <<L_header5, L_sshd>> =>
              /\ Len(result.value) = 1
              /\ result.value[1].name = w_sshd
              /\ result.value[1].status = "Active"
              /\ result.value[1].active = TRUE
              /\ result.value[1].description =
                    Some(<<"O","p","e","n","S","S","H"," ","s","e","r","v","e","r">>)

\* a row whose field 0 ends with .service twice
C4_Witness ==
    /\ pc = "done"
    /\ \E k \in 1..Len(result.value) :
          /\ in_lines[nth(ValidIdx, k)] = L_double_suffix
          /\ result.value[k].name = <<"a">>

\* C5: a candidate row with fewer than four fields gives no Unit and does
\* not end or fail the parse; header "UNIT LOAD ACTIVE SUB" followed by
\* "foo.service loaded" gives the empty sequence, successfully.
C5_ShortRowsSkipped ==
    pc = "done" =>
        /\ result.ok
        /\ Len(result.value) = Cardinality(ValidIdx)
        /\ \A i \in ShortIdx : \A j \in ValidIdx : j > i =>
              \E k \in 1..Len(result.value) :
                  /\ nth(ValidIdx, k) = j
                  /\ result.value[k].sub_state = in_lines[j].words[4]
        /\ in_lines = <<L_header4, L_foo_short>> => result = Ok(<<>>)

\* a short row followed by a full row, the full row returned
C5_Witness ==
    /\ pc = "done"
    /\ \E i \in ShortIdx : \E j \in ValidIdx : j > i
    /\ Len(result.value) >= 1

(***************************************************************************)
(* Inputs of parse_service_status: a property dump is built from lines, a  *)
(* line from a key, a value, the whitespace put around each of them, and   *)
(* whether it holds an '=' at all.                                         *)
(***************************************************************************)
w_ActiveState == <<"A","c","t","i","v","e","S","t","a","t","e">>
w_SubState == <<"S","u","b","S","t","a","t","e">>
w_LoadState == <<"L","o","a","d","S","t","a","t","e">>
w_UnitFileState == <<"U","n","i","t","F","i","l","e","S","t","a","t","e">>
w_Description == <<"D","e","s","c","r","i","p","t","i","o","n">>
w_Id == <<"I","d">>
w_enabled == <<"e","n","a","b","l","e","d">>
w_Enabled == <<"E","n","a","b","l","e","d">>
w_Inactive == <<"I","n","a","c","t","i","v","e">>
w_unknown == <<"u","n","k","n","o","w","n">>
w_OpenSSH_server == <<"O","p","e","n","S","S","H"," ","s","e","r","v","e","r">>
w_a_eq_b == <<"a","=","b">>

MaxPropLines == 3

Prop(key, val, pad) == [key |-> key, val |-> val, pad |-> pad, eq |-> TRUE]
NoEq(key) == [key |-> key, val |-> <<>>, pad |-> <<>>, eq |-> FALSE]

render_prop(p) ==
    IF p.eq THEN p.pad \o p.key \o p.pad \o <<"=">> \o p.pad \o p.val \o p.pad
    ELSE p.key

RECURSIVE render_props(_)
render_props(ps) ==
    IF ps = <<>> THEN <<>>
    ELSE render_prop(ps[1]) \o <<"\n">> \o render_props(Tail(ps))

render_dump(ps, final_nl) ==
    LET t == render_props(ps)
    IN  IF final_nl \/ t = <<>> THEN t ELSE SubSeq(t, 1, Len(t) - 1)

P_active_failed == Prop(w_ActiveState, w_failed, <<>>)
P_active_active == Prop(w_ActiveState, w_active, <<>>)
P_active_Inactive == Prop(w_ActiveState, w_Inactive, <<" ">>)
P_active_empty == Prop(w_ActiveState, <<>>, <<>>)
P_active_no_eq == NoEq(w_ActiveState)
P_sub_dead == Prop(w_SubState, w_dead, <<>>)
P_load_loaded == Prop(w_LoadState, w_loaded, <<"\t">>)
P_file_enabled == Prop(w_UnitFileState, w_enabled, <<>>)
P_file_Enabled == Prop(w_UnitFileState, w_Enabled, <<>>)
P_desc_openssh == Prop(w_Description, w_OpenSSH_server, <<>>)
P_desc_a_eq_b == Prop(w_Description, w_a_eq_b, <<" ">>)
P_id == Prop(w_Id, w_sshd_service, <<>>)

PropPool ==
    {P_active_failed, P_active_active, P_active_Inactive, P_active_empty,
     P_active_no_eq, P_sub_dead, P_load_loaded, P_file_enabled, P_file_Enabled,
     P_desc_openssh, P_desc_a_eq_b, P_id}

\* one line for each of the five keys the parser reads
KeyLines == <<P_active_failed, P_sub_dead, P_load_loaded, P_file_enabled, P_desc_openssh>>

\* the lines of KeyLines whose index is in S, in the order of KeyLines
RECURSIVE pick(_, _)
pick(S, i) ==
    IF i > Len(KeyLines) THEN <<>>
    ELSE (IF i \in S THEN <<KeyLines[i]>> ELSE <<>>) \o pick(S, i + 1)

w_ENABLED == <<"E","N","A","B","L","E","D">>
w_enabled_runtime == <<"e","n","a","b","l","e","d","-","r","u","n","t","i","m","e">>
w_static == <<"s","t","a","t","i","c">>
w_disabled == <<"d","i","s","a","b","l","e","d">>

\* values of UnitFileState
UnitFileStates ==
    {w_enabled, w_Enabled, w_ENABLED, w_enabled_runtime, w_static, w_disabled, <<>>}

PropInputs ==
    SeqsUpTo(PropPool, MaxPropLines)
        \cup {pick(S, 1) : S \in SUBSET (1..Len(KeyLines))}
        \cup {<<Prop(w_ActiveState, tok, <<>>)>> : tok \in TokenPool}
        \cup {<<Prop(w_UnitFileState, v, pad)>> : v \in UnitFileStates, pad \in {<<>>, <<" ">>}}
        \cup {<<Prop(w_UnitFileState, v, <<>>), Prop(w_UnitFileState, w, <<>>)>> :
                 v \in UnitFileStates, w \in UnitFileStates}

NamePool == {w_sshd, w_sshd_service, <<>>}

(***************************************************************************)
(* The call of parse_service_status on a property dump.                    *)
(***************************************************************************)
InitProps ==
    /\ pc = "call"
    /\ in_lines \in PropInputs
    /\ output \in {render_dump(in_lines, TRUE), render_dump(in_lines, FALSE)}
    /\ service_name \in NamePool
    /\ result = None
    /\ tasks = <<>>
    /\ connected = <<>>
    /\ NoCmd /\ NoUi
    /\ NoApp

CallParseServiceStatus ==
    /\ pc = "call"
    /\ result' = parse_service_status(service_name, output)
    /\ pc' = "done"
    /\ UNCHANGED <<in_lines, output, service_name, tasks, connected, cmd_vars, ui_vars, app_vars>>

NextProps == CallParseServiceStatus

SpecProps == InitProps /\ [][NextProps]_vars

\* the key has a line with an '=' in the input
has_key(K) == \E i \in 1..Len(in_lines) : in_lines[i].eq /\ in_lines[i].key = K

contains(s, p) == \E i \in 1..(Len(s) - Len(p) + 1) : SubSeq(s, i, i + Len(p) - 1) = p

\* C3: the name of every Unit returned (here by parse_service_status for a
\* caller-supplied name) is non-empty and does not contain ".service".
C3_NameNonEmptyWithoutSuffix ==
    pc = "done" =>
        /\ result.value.name # <<>>
        /\ ~contains(result.value.name, w_dot_service)

\* C6: parse_service_status succeeds on every input; an absent ActiveState,
\* SubState, LoadState or UnitFileState counts as "unknown", an absent
\* Description gives None; "ActiveState=failed" alone gives Failed, not
\* enabled, no description, load_state "unknown"; the empty input gives
\* Unknown with load_state and sub_state "unknown".
C6_TotalOverMissingKeys ==
    pc = "done" =>
        /\ result.ok
        /\ ~has_key(w_ActiveState) =>
              result.value.status = "Unknown" /\ ~result.value.active
        /\ ~has_key(w_SubState) => result.value.sub_state = w_unknown
        /\ ~has_key(w_LoadState) => result.value.load_state = w_unknown
        /\ ~has_key(w_UnitFileState) => ~result.value.enabled
        /\ ~has_key(w_Description) => result.value.description = None
        /\ in_lines = <<P_active_failed>> =>
              /\ result.value.status = "Failed"
              /\ result.value.enabled = FALSE
              /\ result.value.description = None
              /\ result.value.load_state = w_unknown
        /\ in_lines = <<>> =>
              /\ result.value.status = "Unknown"
              /\ result.value.load_state = w_unknown
              /\ result.value.sub_state = w_unknown

\* a dump with some of the keys only, parsed
C6_Witness ==
    /\ pc = "done"
    /\ has_key(w_ActiveState) /\ has_key(w_Description)
    /\ ~has_key(w_LoadState) /\ ~has_key(w_SubState) /\ ~has_key(w_UnitFileState)
    /\ result.value.load_state = w_unknown

(***************************************************************************)
(* ServiceStatus::from on a token, Display of the value, and from again on *)
(* the lower-cased display string.                                         *)
(***************************************************************************)
InitStatus ==
    /\ pc = "call"
    /\ in_lines = <<>>
    /\ output \in TokenPool \cup {<<>>}
    /\ service_name = <<>>
    /\ result = None
    /\ tasks = <<>>
    /\ connected = <<>>
    /\ NoCmd /\ NoUi
    /\ NoApp

CallFrom ==
    /\ pc = "call"
    /\ result' = [status |-> ServiceStatus_from(output)]
    /\ pc' = "converted"
    /\ UNCHANGED <<in_lines, output, service_name, tasks, connected, cmd_vars, ui_vars, app_vars>>

CallFmt ==
    /\ pc = "converted"
    /\ result' = [status |-> result.status, shown |-> ServiceStatus_fmt(result.status)]
    /\ pc' = "shown"
    /\ UNCHANGED <<in_lines, output, service_name, tasks, connected, cmd_vars, ui_vars, app_vars>>

CallFromOnShown ==
    /\ pc = "shown"
    /\ result' = [status |-> result.status, shown |-> result.shown,
                  back |-> ServiceStatus_from(to_lowercase(result.shown))]
    /\ pc' = "done"
    /\ UNCHANGED <<in_lines, output, service_name, tasks, connected, cmd_vars, ui_vars, app_vars>>

\* parse_service_line on a listing row whose ACTIVE field is the token
CallParseServiceLine ==
    /\ pc = "call" /\ output # <<>>
    /\ result' = [line |-> parse_service_line(render_line(TokenRow(output)))]
    /\ pc' = "parsed"
    /\ UNCHANGED <<in_lines, output, service_name, tasks, connected, cmd_vars, ui_vars, app_vars>>

NextStatus == CallFrom \/ CallFmt \/ CallFromOnShown \/ CallParseServiceLine

SpecStatus == InitStatus /\ [][NextStatus]_vars

capitalized(w) == <<char_to_uppercase(w[1])>> \o Tail(w)

\* C7: "active", "inactive" and "failed", converted and displayed, give the
\* word with its first letter in upper case; the four values have four
\* different display strings; the lower-cased display string converts back
\* to the value.
C7_StatusRoundTrip ==
    /\ (pc \in {"shown", "done"} /\ output \in {w_active, w_inactive, w_failed}) =>
          result.shown = capitalized(output)
    /\ \A a, b \in ServiceStatus :
          a # b => ServiceStatus_fmt(a) # ServiceStatus_fmt(b)
    /\ pc = "done" => result.back = result.status

\* "failed" converted, displayed as "Failed", and converted back to Failed
C7_Witness ==
    /\ pc = "done" /\ output = w_failed
    /\ result.status = "Failed"
    /\ result.shown = <<"F","a","i","l","e","d">>
    /\ result.back = "Failed"

(***************************************************************************)
(* Command execution: operations issued as concurrent tasks against the    *)
(* local manager (ServiceManager) and against remote hosts                 *)
(* (RemoteServiceManager, one per host, built from that host's session).   *)
(***************************************************************************)
NumTasks == 2

Hosts == {"h1", "h2"}

Tasks == 1..NumTasks

Verbs == {"start_service", "stop_service"}

RemoteOps == {"list_services", "get_service_status", "get_service_logs"} \cup Verbs

LocalOps == {"list_local_services", "get_service_status", "get_service_logs"} \cup Verbs

\* how a child process can end: it could not be spawned, it exited with a
\* failure status, it exited successfully
Outcomes == {"spawn_error", "exit_failure", "exit_success"}

IdleTask == [target |-> "none", op |-> "none", pc |-> "idle", ret |-> None]

\* the unit the status and verb operations are called for
TaskUnit == w_sshd

\* what a successful child process wrote to stdout
stdout_of(op) ==
    CASE op = "list_local_services" -> render_text(<<L_header5, L_sshd>>, TRUE)
      [] op = "get_service_status"  -> render_dump(<<P_active_active>>, TRUE)
      [] OTHER                      -> <<>>

\* RemoteServiceManager::execute_command: the closure given to
\* spawn_blocking returns Ok("") and reads neither the session nor the command
execute_command(command) == Ok(<<>>)

\* the value of a RemoteServiceManager operation, from execute_command's
remote_result(op) ==
    LET out == execute_command(op)
    IN  IF ~out.ok THEN out
        ELSE CASE op = "list_services"      -> parse_service_list(out.value)
               [] op = "get_service_status" -> parse_service_status(TaskUnit, out.value)
               [] op = "get_service_logs"   -> out
               [] OTHER                     -> Ok("()")

\* the value of a ServiceManager operation, from how its child process ended
local_result(op, outcome) ==
    IF outcome = "spawn_error" THEN Err("io")
    ELSE IF outcome = "exit_failure" THEN Err("command_failed")
    ELSE CASE op = "list_local_services" -> parse_service_list(stdout_of(op))
           [] op = "get_service_status"  -> parse_service_status(TaskUnit, stdout_of(op))
           [] op = "get_service_logs"    -> Ok(stdout_of(op))
           [] OTHER                      -> Ok("()")

InitExec ==
    /\ pc = "run"
    /\ in_lines = <<>>
    /\ output = <<>>
    /\ service_name = <<>>
    /\ result = None
    /\ tasks = [t \in Tasks |-> IdleTask]
    /\ connected \in [Hosts -> BOOLEAN]
    /\ NoCmd /\ NoUi
    /\ NoApp

\* a RemoteServiceManager operation is called for host h: execute_command
\* hands its closure to the blocking pool and awaits it
RemoteCall(t, h, op) ==
    /\ tasks[t].pc = "idle"
    /\ tasks' = [tasks EXCEPT ![t] = [target |-> h, op |-> op, pc |-> "blocking", ret |-> None]]
    /\ UNCHANGED <<pc, in_lines, output, service_name, result, connected, cmd_vars, ui_vars, app_vars>>

\* the closure of a task has ended while some other task is in flight: never
RemoteReturn_one_at_a_time(t) ==
    /\ tasks[t].pc = "blocking"
    /\ \A u \in Tasks \ {t} : tasks[u].pc \notin {"blocking", "child"}
    /\ tasks' = [tasks EXCEPT ![t].pc = "done", ![t].ret = remote_result(tasks[t].op)]
    /\ UNCHANGED <<pc, in_lines, output, service_name, result, connected, cmd_vars, ui_vars, app_vars>>

\* the closure ends, the await resumes and the operation returns
RemoteReturn(t) ==
    /\ tasks[t].pc = "blocking"
    /\ tasks' = [tasks EXCEPT ![t].pc = "done", ![t].ret = remote_result(tasks[t].op)]
    /\ UNCHANGED <<pc, in_lines, output, service_name, result, connected, cmd_vars, ui_vars, app_vars>>

\* a ServiceManager operation is called: a child process of its own is
\* started and its output awaited
LocalCall(t, op) ==
    /\ tasks[t].pc = "idle"
    /\ tasks' = [tasks EXCEPT ![t] = [target |-> "local", op |-> op, pc |-> "child", ret |-> None]]
    /\ UNCHANGED <<pc, in_lines, output, service_name, result, connected, cmd_vars, ui_vars, app_vars>>

\* the child process ends, the await resumes and the operation returns
LocalReturn(t, outcome) ==
    /\ tasks[t].pc = "child"
    /\ tasks' = [tasks EXCEPT ![t].pc = "done", ![t].ret = local_result(tasks[t].op, outcome)]
    /\ UNCHANGED <<pc, in_lines, output, service_name, result, connected, cmd_vars, ui_vars, app_vars>>

NextExec ==
    \/ \E t \in Tasks, h \in Hosts, op \in RemoteOps : RemoteCall(t, h, op)
    \/ \E t \in Tasks : RemoteReturn(t)
    \/ \E t \in Tasks, op \in LocalOps : LocalCall(t, op)
    \/ \E t \in Tasks, outcome \in Outcomes : LocalReturn(t, outcome)

SpecExec == InitExec /\ [][NextExec]_vars

in_flight(t) == tasks[t].pc \in {"blocking", "child"}

\* C8: a remote operation (list, status, verb, logs) for a host no connect()
\* has succeeded for returns the error NoSession, never a success value.
C8_NoSessionWithoutConnect ==
    \A t \in Tasks :
        (tasks[t].pc = "done" /\ tasks[t].target \in Hosts /\ ~connected[tasks[t].target])
            => tasks[t].ret = Err("NoSession")

\* C9: of the verb calls against one connected remote host, at most one is
\* in flight on the host's session at any time.
C9_OneCommandInFlightPerHost ==
    \A h \in Hosts :
        connected[h] =>
            Cardinality({t \in Tasks : /\ tasks[t].target = h
                                       /\ tasks[t].op \in Verbs
                                       /\ tasks[t].pc = "blocking"}) <= 1

\* C10: two operations in flight against two different targets (two remote
\* hosts, or the local host and a remote host) do not wait for each other:
\* each of them can return while the other is still in flight.
C10_DifferentTargetsIndependent ==
    \A a, b \in Tasks :
        (a # b /\ in_flight(a) /\ in_flight(b) /\ tasks[a].target # tasks[b].target)
            => /\ ENABLED (RemoteReturn(a) \/ \E o \in Outcomes : LocalReturn(a, o))
               /\ ENABLED (RemoteReturn(b) \/ \E o \in Outcomes : LocalReturn(b, o))

\* one operation has returned while one against another target is in flight
C10_Witness ==
    \E a, b \in Tasks :
        /\ tasks[a].pc = "done" /\ tasks[a].target = "local"
        /\ tasks[b].pc = "blocking" /\ tasks[b].target \in Hosts

(***************************************************************************)
(* One operation of ServiceManager (local) or RemoteServiceManager         *)
(* (remote), step by step: the commands it builds and hands to its         *)
(* executor, how each command ends, and the value the operation returns.   *)
(* A command is the sequence of its words: the program and its arguments   *)
(* locally, the blank-separated words of the command string remotely.      *)
(***************************************************************************)
UnitNames == {"sshd", "nginx.service"}

LineCounts == {None, Some(1), Some(50)}

Contents == {"[Unit]"}

Stderrs == {"", "Unit not found."}

OsErrors == {"os error 2", "os error 11"}

LocalVerbOps ==
    {"start_service", "stop_service", "restart_service", "enable_service",
     "disable_service", "reload_service"}

RemoteVerbOps ==
    {"start_service", "stop_service", "restart_service", "enable_service",
     "disable_service"}

Call(transport, op, name, show_inactive, n, content) ==
    [transport |-> transport, op |-> op, name |-> name,
     show_inactive |-> show_inactive, lines |-> n, content |-> content]

LocalCalls ==
    {Call("local", "list_local_services", "", b, None, "") : b \in BOOLEAN}
    \cup {Call("local", "get_service_status", u, FALSE, None, "") : u \in UnitNames}
    \cup {Call("local", op, u, FALSE, None, "") : op \in LocalVerbOps, u \in UnitNames}
    \cup {Call("local", "get_service_logs", u, FALSE, n, "") : u \in UnitNames, n \in LineCounts}
    \cup {Call("local", "daemon_reload", "", FALSE, None, "")}
    \cup {Call("local", "create_service_file", u, FALSE, None, c) : u \in UnitNames, c \in Contents}

RemoteCalls ==
    {Call("remote", "list_services", "", b, None, "") : b \in BOOLEAN}
    \cup {Call("remote", "get_service_status", u, FALSE, None, "") : u \in UnitNames}
    \cup {Call("remote", op, u, FALSE, None, "") : op \in RemoteVerbOps, u \in UnitNames}
    \cup {Call("remote", "get_service_logs", u, FALSE, n, "") : u \in UnitNames, n \in LineCounts}

\* the systemctl verb a method passes
verb_of(op) ==
    CASE op = "start_service"   -> "start"
      [] op = "stop_service"    -> "stop"
      [] op = "restart_service" -> "restart"
      [] op = "enable_service"  -> "enable"
      [] op = "disable_service" -> "disable"
      [] op = "reload_service"  -> "reload"

\* format!("/etc/systemd/system/{}.service", service_name)
service_path(name) == "/etc/systemd/system/" \o name \o ".service"

\* the "-n <N>" arguments of the log commands
lines_args(n) == IF n = None THEN <<>> ELSE <<"-n", ToString(n[1])>>

\* remote command strings with the elevation prefix on the listing as well
remote_command_all_elevated(c) ==
    CASE c.op = "list_services" ->
            <<"sudo", "systemctl", "list-units", "--type=service", "--no-pager">>
                \o (IF c.show_inactive THEN <<"--all">> ELSE <<>>)
      [] c.op = "get_service_status" -> <<"systemctl", "show", c.name, "--no-pager">>
      [] c.op \in RemoteVerbOps -> <<"sudo", "systemctl", verb_of(c.op), c.name>>
      [] c.op = "get_service_logs" ->
            <<"journalctl", "-u", c.name, "--no-pager">> \o lines_args(c.lines)

\* the program and arguments a ServiceManager method gives to TokioCommand
local_command(c) ==
    CASE c.op = "list_local_services" ->
            <<"systemctl", "list-units", "--type=service", "--no-pager">>
                \o (IF c.show_inactive THEN <<"--all">> ELSE <<>>)
      [] c.op = "get_service_status" -> <<"systemctl", "show", c.name, "--no-pager">>
      [] c.op \in LocalVerbOps -> <<"systemctl", verb_of(c.op), c.name>>
      [] c.op = "get_service_logs" ->
            <<"journalctl", "-u", c.name, "--no-pager">> \o lines_args(c.lines)
      [] c.op = "daemon_reload" -> <<"systemctl", "daemon-reload">>
      [] c.op = "create_service_file" -> <<"sudo", "tee", service_path(c.name)>>

\* the command string a RemoteServiceManager method gives to execute_command
remote_command(c) ==
    CASE c.op = "list_services" ->
            <<"systemctl", "list-units", "--type=service", "--no-pager">>
                \o (IF c.show_inactive THEN <<"--all">> ELSE <<>>)
      [] c.op = "get_service_status" -> <<"systemctl", "show", c.name, "--no-pager">>
      [] c.op \in RemoteVerbOps -> <<"sudo", "systemctl", verb_of(c.op), c.name>>
      [] c.op = "get_service_logs" ->
            <<"journalctl", "-u", c.name, "--no-pager">> \o lines_args(c.lines)

\* how a command can end: it could not be spawned (or its output not read),
\* it exited with a failure status and some stderr, it exited successfully
Outcome(kind, text) == [kind |-> kind, text |-> text]

CommandOutcomes ==
    {Outcome("spawn_error", e) : e \in OsErrors}
    \cup {Outcome("exit_failure", e) : e \in Stderrs}
    \cup {Outcome("exit_success", "")}

\* the elevated write can also fail while its stdin is being written
WriteOutcomes == CommandOutcomes \cup {Outcome("stdin_error", "os error 32")}

\* anyhow::Error from an io::Error (the ? operator): the OS error, no context
io_error(text) == [message |-> "", detail |-> text]

\* anyhow!("<message>{}", stderr)
command_error(message, stderr) == [message |-> message, detail |-> stderr]

\* the message each method puts in front of the stderr of a failed command
failure_message(op) ==
    CASE op = "list_local_services" -> "Failed to list services: "
      [] op = "get_service_status"  -> "Failed to get service status: "
      [] op = "get_service_logs"    -> "Failed to get service logs: "
      [] op = "create_service_file" -> "Failed to create service file: "
      [] OTHER                      -> "systemctl command failed: "

\* the value a one-command ServiceManager method returns, from how its
\* command ended
local_finish(c, o) ==
    IF o.kind = "spawn_error" THEN Err(io_error(o.text))
    ELSE IF o.kind = "exit_failure" THEN Err(command_error(failure_message(c.op), o.text))
    ELSE CASE c.op = "list_local_services" -> parse_service_list(stdout_of(c.op))
           [] c.op = "get_service_status"  -> parse_service_status(c.name, stdout_of(c.op))
           [] c.op = "get_service_logs"    -> Ok(stdout_of(c.op))
           [] OTHER                        -> Ok("()")

\* the error create_service_file returns when its write step fails
write_error(o) ==
    IF o.kind \in {"spawn_error", "stdin_error"} THEN Err(io_error(o.text))
    ELSE Err(command_error(failure_message("create_service_file"), o.text))

InitCmd ==
    /\ pc = "call"
    /\ in_lines = <<>>
    /\ output = <<>>
    /\ service_name = <<>>
    /\ result = None
    /\ tasks = <<>>
    /\ connected = <<>>
    /\ call \in LocalCalls \cup RemoteCalls
    /\ issued = <<>>
    /\ outcomes = <<>>
    /\ NoUi
    /\ NoApp

\* a ServiceManager method builds its command and starts it
IssueLocal ==
    /\ pc = "call" /\ call.transport = "local"
    /\ issued' = <<local_command(call)>>
    /\ pc' = IF call.op = "create_service_file" THEN "writing" ELSE "awaiting"
    /\ UNCHANGED <<in_lines, output, service_name, result, tasks, connected, call, outcomes, ui_vars, app_vars>>

\* the command of a one-command method ends and the method returns
FinishLocal(o) ==
    /\ pc = "awaiting"
    /\ outcomes' = Append(outcomes, o)
    /\ result' = local_finish(call, o)
    /\ pc' = "done"
    /\ UNCHANGED <<in_lines, output, service_name, tasks, connected, call, issued, ui_vars, app_vars>>

\* create_service_file that reloads whatever became of the write
WriteEnds_reload_always(o) ==
    /\ pc = "writing"
    /\ outcomes' = Append(outcomes, o)
    /\ issued' = Append(issued, <<"systemctl", "daemon-reload">>)
    /\ pc' = "reloading"
    /\ UNCHANGED <<in_lines, output, service_name, result, tasks, connected, call, ui_vars, app_vars>>

\* create_service_file: the elevated write ends; after a successful write
\* daemon_reload is called and starts its command, otherwise the method
\* returns the error
WriteEnds(o) ==
    /\ pc = "writing"
    /\ outcomes' = Append(outcomes, o)
    /\ IF o.kind = "exit_success"
       THEN /\ issued' = Append(issued, local_command(Call("local", "daemon_reload", "", FALSE, None, "")))
            /\ pc' = "reloading"
            /\ UNCHANGED result
       ELSE /\ result' = write_error(o)
            /\ pc' = "done"
            /\ UNCHANGED issued
    /\ UNCHANGED <<in_lines, output, service_name, tasks, connected, call, ui_vars, app_vars>>

\* create_service_file: daemon_reload ends; its error is passed on by ?
ReloadEnds(o) ==
    /\ pc = "reloading"
    /\ outcomes' = Append(outcomes, o)
    /\ result' = local_finish(Call("local", "daemon_reload", "", FALSE, None, ""), o)
    /\ pc' = "done"
    /\ UNCHANGED <<in_lines, output, service_name, tasks, connected, call, issued, ui_vars, app_vars>>

\* a RemoteServiceManager method builds its command string and calls
\* execute_command with it
IssueRemote ==
    /\ pc = "call" /\ call.transport = "remote"
    /\ issued' = <<remote_command(call)>>
    /\ pc' = "blocking"
    /\ UNCHANGED <<in_lines, output, service_name, result, tasks, connected, call, outcomes, ui_vars, app_vars>>

\* execute_command returns and the method with it; o is how the command
\* ends on the host, which the closure of execute_command never asks for
FinishRemote(o) ==
    /\ pc = "blocking"
    /\ outcomes' = Append(outcomes, o)
    /\ result' = remote_result(call.op)
    /\ pc' = "done"
    /\ UNCHANGED <<in_lines, output, service_name, tasks, connected, call, issued, ui_vars, app_vars>>

NextCmd ==
    \/ IssueLocal
    \/ \E o \in CommandOutcomes : FinishLocal(o)
    \/ \E o \in WriteOutcomes : WriteEnds(o)
    \/ \E o \in CommandOutcomes : ReloadEnds(o)
    \/ IssueRemote
    \/ \E o \in CommandOutcomes : FinishRemote(o)

SpecCmd == InitCmd /\ [][NextCmd]_vars

(***************************************************************************)
(* Claims about the commands of an operation and the value it returns.     *)
(***************************************************************************)
is_create == call.op = "create_service_file"

write_failures == {o \in WriteOutcomes : o.kind # "exit_success"}

\* C11: a create_service_file call that fails at the daemon-reload step
\* after a successful write returns an error that no failure of the write
\* step returns, and it issued the write and the reload and nothing else
\* (no command that deletes or rewrites the file).
C11_ReloadFailureDistinguishable ==
    (is_create /\ pc = "done" /\ Len(outcomes) = 2 /\ ~result.ok) =>
        /\ result \notin {write_error(o) : o \in write_failures}
        /\ issued = <<<<"sudo", "tee", service_path(call.name)>>,
                      <<"systemctl", "daemon-reload">>>>

\* C12: in create_service_file the daemon-reload command is issued only
\* after the elevated write exited successfully; when the write cannot be
\* spawned, its stdin cannot be written or it exits unsuccessfully, the call
\* returns an error and no reload is issued; the call returns success only
\* when both the write and the reload exited successfully.
C12_ReloadOnlyAfterSuccessfulWrite ==
    is_create =>
        /\ (\E i \in 1..Len(issued) : issued[i] = <<"systemctl", "daemon-reload">>)
              => (Len(outcomes) >= 1 /\ outcomes[1].kind = "exit_success")
        /\ (Len(outcomes) >= 1 /\ outcomes[1].kind # "exit_success")
              => (pc = "done" /\ ~result.ok /\ Len(issued) = 1)
        /\ (pc = "done" /\ result.ok)
              => (Len(outcomes) = 2 /\ outcomes[1].kind = "exit_success"
                                    /\ outcomes[2].kind = "exit_success")

C12_Witness ==
    /\ is_create /\ pc = "done"
    /\ outcomes[1].kind = "exit_failure"
    /\ ~result.ok /\ Len(issued) = 1

is_listing == call.op \in {"list_local_services", "list_services"}

\* C13: on either transport, a listing whose command exited unsuccessfully
\* returns an error that carries the command's stderr.
C13_ListFailureReturnsStderr ==
    (is_listing /\ pc = "done" /\ outcomes[1].kind = "exit_failure") =>
        (~result.ok /\ result.error.detail = outcomes[1].text)

\* C14: on either transport, a lifecycle verb executes exactly one command,
\* returns success exactly when that command exited successfully, and
\* returns an error carrying the command's stderr when it exited
\* unsuccessfully.
C14_VerbOneCommandResultFollowsExit ==
    (call.op \in LocalVerbOps /\ pc = "done") =>
        /\ Len(issued) = 1 /\ Len(outcomes) = 1
        /\ result.ok <=> outcomes[1].kind = "exit_success"
        /\ outcomes[1].kind = "exit_failure"
              => (~result.ok /\ result.error.detail = outcomes[1].text)

\* the words of a command joined by single blanks
RECURSIVE command_line(_)
command_line(words) ==
    IF Len(words) = 0 THEN ""
    ELSE IF Len(words) = 1 THEN words[1]
    ELSE words[1] \o " " \o command_line(Tail(words))

\* the argument string the specification gives for an operation
expected_args(c) ==
    CASE c.op \in {"list_local_services", "list_services"} ->
            IF c.show_inactive THEN "list-units --type=service --no-pager --all"
            ELSE "list-units --type=service --no-pager"
      [] c.op = "get_service_status" -> "show " \o c.name \o " --no-pager"
      [] c.op = "start_service"   -> "start " \o c.name
      [] c.op = "stop_service"    -> "stop " \o c.name
      [] c.op = "restart_service" -> "restart " \o c.name
      [] c.op = "enable_service"  -> "enable " \o c.name
      [] c.op = "disable_service" -> "disable " \o c.name
      [] c.op = "reload_service"  -> "reload " \o c.name
      [] c.op = "daemon_reload"   -> "daemon-reload"
      [] c.op = "get_service_logs" ->
            IF c.lines = None THEN "-u " \o c.name \o " --no-pager"
            ELSE "-u " \o c.name \o " --no-pager -n " \o ToString(c.lines[1])

expected_program(c) ==
    IF c.op = "get_service_logs" THEN "journalctl" ELSE "systemctl"

\* C15: the argument strings are exactly those of the specification: locally
\* the program is systemctl (journalctl for logs) with these arguments,
\* remotely the command string is the program and the same arguments, with
\* the elevation prefix in front of the control verbs and of no read-only
\* query; the reload after a write is "daemon-reload".
C15_ExactCommandStrings ==
    /\ (pc # "call" /\ call.transport = "local" /\ ~is_create) =>
          /\ Head(issued[1]) = expected_program(call)
          /\ command_line(Tail(issued[1])) = expected_args(call)
    /\ (pc # "call" /\ call.transport = "remote") =>
          command_line(issued[1]) =
              (IF call.op \in RemoteVerbOps THEN "sudo " ELSE "")
                  \o expected_program(call) \o " " \o expected_args(call)
    /\ (is_create /\ Len(issued) = 2) =>
          command_line(issued[2]) = "systemctl daemon-reload"

C15_Witness ==
    /\ pc = "done" /\ call.transport = "remote"
    /\ call.op = "get_service_logs" /\ call.lines = Some(50)
    /\ issued = <<<<"journalctl", "-u", call.name, "--no-pager", "-n", "50">>>>

\* C20: the status derivation is total and case-insensitive: every casing
\* of active, inactive, failed gives Active, Inactive, Failed; every other
\* token, the empty one and "unknown" included, gives Unknown; a listing
\* row with an unrecognized token still gives a Unit, with status Unknown.
C20_StatusDerivationTotal ==
    /\ pc \in {"converted", "shown", "done"} =>
          /\ result.status \in ServiceStatus
          /\ result.status = expected_status(output)
    /\ pc = "parsed" =>
          /\ result.line # None
          /\ result.line[1].status = expected_status(output)

C20_Witness ==
    /\ pc = "parsed" /\ output = w_activating
    /\ result.line # None /\ result.line[1].status = "Unknown"

(***************************************************************************)
(* ThemeManager: the dark-mode flag and the operations on it.  theme_log   *)
(* records each operation with the flag is_dark_mode() returned before     *)
(* and after it.                                                           *)
(***************************************************************************)
MaxThemeOps == 4

\* ThemeManager::new: the flag is whatever detect_system_theme finds
InitTheme ==
    /\ pc = "theme"
    /\ in_lines = <<>>
    /\ output = <<>>
    /\ service_name = <<>>
    /\ result = None
    /\ tasks = <<>>
    /\ connected = <<>>
    /\ NoCmd
    /\ is_dark_mode \in BOOLEAN
    /\ theme_log = <<>>
    /\ host = <<>>
    /\ NoApp

ThemeEntry(op, dark, before, after) ==
    [op |-> op, dark |-> dark, before |-> before, after |-> after]

\* a toggle that always ends in dark mode
toggle_theme_to_dark ==
    /\ Len(theme_log) < MaxThemeOps
    /\ is_dark_mode' = TRUE
    /\ theme_log' = Append(theme_log, ThemeEntry("toggle_theme", FALSE, is_dark_mode, is_dark_mode'))
    /\ UNCHANGED <<pc, in_lines, output, service_name, result, tasks, connected, cmd_vars, host, app_vars>>

toggle_theme ==
    /\ Len(theme_log) < MaxThemeOps
    /\ LET current == is_dark_mode IN is_dark_mode' = ~current
    /\ theme_log' = Append(theme_log, ThemeEntry("toggle_theme", FALSE, is_dark_mode, is_dark_mode'))
    /\ UNCHANGED <<pc, in_lines, output, service_name, result, tasks, connected, cmd_vars, host, app_vars>>

set_dark_mode(dark) ==
    /\ Len(theme_log) < MaxThemeOps
    /\ is_dark_mode' = dark
    /\ theme_log' = Append(theme_log, ThemeEntry("set_dark_mode", dark, is_dark_mode, is_dark_mode'))
    /\ UNCHANGED <<pc, in_lines, output, service_name, result, tasks, connected, cmd_vars, host, app_vars>>

NextTheme ==
    \/ toggle_theme
    \/ \E dark \in BOOLEAN : set_dark_mode(dark)

SpecTheme == InitTheme /\ [][NextTheme]_vars

\* C18: toggle_theme negates the flag, so two toggles in a row restore it;
\* after set_dark_mode(b) the flag is b.
C18_ToggleNegatesSetAssigns ==
    /\ \A i \in 1..Len(theme_log) :
          /\ theme_log[i].op = "toggle_theme" => theme_log[i].after = ~theme_log[i].before
          /\ theme_log[i].op = "set_dark_mode" => theme_log[i].after = theme_log[i].dark
          /\ theme_log[i].before = (IF i = 1 THEN theme_log[1].before ELSE theme_log[i-1].after)
    /\ \A i \in 1..(Len(theme_log) - 1) :
          (theme_log[i].op = "toggle_theme" /\ theme_log[i+1].op = "toggle_theme")
              => theme_log[i+1].after = theme_log[i].before
    /\ Len(theme_log) > 0 => is_dark_mode = theme_log[Len(theme_log)].after

C18_Witness ==
    /\ Len(theme_log) >= 3
    /\ theme_log[1].op = "set_dark_mode" /\ theme_log[1].dark
    /\ theme_log[2].op = "toggle_theme" /\ theme_log[3].op = "toggle_theme"
    /\ is_dark_mode

(***************************************************************************)
(* RemoteHost: a host value and its three authentication queries.          *)
(***************************************************************************)
HostNames == {"web", "db", "backup"}

HostAddresses == {"10.0.0.1", "example.org", "localhost"}

UserNames == {"root", "admin"}

KeyPaths == {"~/.ssh/id_rsa", "/keys/deploy"}

AuthType_Password == [variant |-> "Password", path |-> None]

AuthType_Key(path) == [variant |-> "Key", path |-> path]

AuthTypes == {AuthType_Password, AuthType_Key(None)} \cup {AuthType_Key(Some(p)) : p \in KeyPaths}

\* RemoteHost::new
RemoteHost_new(name, hostname, username, auth_type) ==
    [name |-> name, hostname |-> hostname, username |-> username, auth_type |-> auth_type]

is_password_auth(h) == h.auth_type.variant = "Password"

\* key authentication only when a path is given
is_key_auth_explicit_path(h) == h.auth_type.variant = "Key" /\ h.auth_type.path # None

is_key_auth(h) == h.auth_type.variant = "Key"

key_path(h) == IF h.auth_type.variant = "Key" THEN h.auth_type.path ELSE None

InitHost ==
    /\ pc = "call"
    /\ in_lines = <<>>
    /\ output = <<>>
    /\ service_name = <<>>
    /\ result = None
    /\ tasks = <<>>
    /\ connected = <<>>
    /\ NoCmd
    /\ is_dark_mode = FALSE
    /\ theme_log = <<>>
    /\ host \in {RemoteHost_new(n, a, u, t) :
                    n \in HostNames, a \in HostAddresses, u \in UserNames, t \in AuthTypes}
    /\ NoApp

\* the three queries made on the host
QueryAuth ==
    /\ pc = "call"
    /\ result' = [is_password_auth |-> is_password_auth(host),
                  is_key_auth |-> is_key_auth(host),
                  key_path |-> key_path(host)]
    /\ pc' = "done"
    /\ UNCHANGED <<in_lines, output, service_name, tasks, connected, cmd_vars, ui_vars, app_vars>>

NextHost == QueryAuth

SpecHost == InitHost /\ [][NextHost]_vars

\* C19: for every RemoteHost exactly one of is_password_auth and is_key_auth
\* is true, and key_path returns a path exactly when the host uses Key
\* authentication with an explicit path (and then that path).
C19_ExactlyOneAuthKind ==
    pc = "done" =>
        /\ result.is_password_auth # result.is_key_auth
        /\ result.is_password_auth <=> host.auth_type = AuthType_Password
        /\ result.key_path # None
              <=> \E p \in KeyPaths : host.auth_type = AuthType_Key(Some(p))
        /\ result.key_path # None => host.auth_type = AuthType_Key(result.key_path)

C19_Witness ==
    /\ pc = "done" /\ host.auth_type = AuthType_Key(None)
    /\ result.is_key_auth /\ ~result.is_password_auth /\ result.key_path = None

(***************************************************************************)
(* Claims about where the candidate rows of a listing begin and end.       *)
(***************************************************************************)
\* the first blank or LOAD line after line h, one past the last line when
\* there is none
TerminatorAfter(h) ==
    IF \E i \in (h + 1)..Len(in_lines) : is_terminator(in_lines[i])
    THEN CHOOSE i \in (h + 1)..Len(in_lines) :
            /\ is_terminator(in_lines[i])
            /\ \A j \in (h + 1)..(i - 1) : ~is_terminator(in_lines[j])
    ELSE Len(in_lines) + 1

\* the lines strictly between line h and the terminator after it that have
\* four or more fields
RowsBetween(h) ==
    {i \in (h + 1)..(TerminatorAfter(h) - 1) : Len(in_lines[i].words) >= 4}

\* the units are those of the rows R, one each, in the order of the rows
units_are_rows(units, R) ==
    /\ Len(units) = Cardinality(R)
    /\ \A k \in 1..Len(units) :
          /\ is_fully_stripped(units[k].name, in_lines[nth(R, k)].words[1])
          /\ fields_match(units[k], in_lines[nth(R, k)])

\* C21: with a line beginning with UNIT, the Units come from exactly the
\* lines after the first such line and before the first later line that is
\* blank or begins with LOAD; none from the header line, the terminating
\* line or a line after it, whatever the number of their fields.
C21_CandidateRowsBetweenHeaderAndTerminator ==
    (pc = "done" /\ HeaderIdx > 0) =>
        /\ result.ok
        /\ units_are_rows(result.value, RowsBetween(HeaderIdx))

\* a header, a terminating line and a line of four or more fields after it
C21_Witness ==
    /\ pc = "done" /\ HeaderIdx > 0
    /\ TerminatorAfter(HeaderIdx) <= Len(in_lines)
    /\ \E i \in (TerminatorAfter(HeaderIdx) + 1)..Len(in_lines) :
          Len(in_lines[i].words) >= 4
    /\ Len(in_lines[HeaderIdx].words) >= 4
    /\ result = Ok(<<>>)

\* C26: without any line beginning with UNIT the candidate rows start at the
\* first line of the text: one Unit for each line of four or more fields up
\* to the first blank line or line beginning with LOAD.
C26_NoHeaderStartsAtFirstLine ==
    (pc = "done" /\ HeaderIdx = 0) =>
        /\ result.ok
        /\ units_are_rows(result.value, RowsBetween(0))

\* no header, and the first line gives a Unit
C26_Witness ==
    /\ pc = "done" /\ HeaderIdx = 0
    /\ Len(in_lines) >= 2
    /\ in_lines[1] = L_header_indented
    /\ Len(result.value) >= 1
    /\ result.value[1].name = w_UNIT

(***************************************************************************)
(* Claims about the lines of a property dump, read off the lines the text  *)
(* was built from.                                                         *)
(***************************************************************************)
\* the value of the last line with an '=' whose key is K
last_val(K) ==
    LET i == CHOOSE k \in 1..Len(in_lines) :
                 /\ in_lines[k].eq /\ in_lines[k].key = K
                 /\ \A j \in (k + 1)..Len(in_lines) :
                       ~(in_lines[j].eq /\ in_lines[j].key = K)
    IN  in_lines[i].val

\* C22: each line is split at its first '=' only (a value may hold '='),
\* key and value are trimmed, a line without '=' is ignored, and of several
\* lines with one key the last one gives the value.
C22_FirstEqualsTrimLastWins ==
    pc = "done" =>
        /\ result.ok
        /\ result.value.description =
              (IF has_key(w_Description) THEN Some(last_val(w_Description)) ELSE None)
        /\ has_key(w_SubState) => result.value.sub_state = last_val(w_SubState)
        /\ has_key(w_LoadState) => result.value.load_state = last_val(w_LoadState)
        /\ has_key(w_ActiveState) =>
              result.value.status = expected_status(last_val(w_ActiveState))
        /\ has_key(w_UnitFileState) =>
              result.value.enabled = (last_val(w_UnitFileState) = w_enabled)

\* two Description lines, the second padded and with an '=' in its value,
\* and an ActiveState line without '=' after one with it
C22_Witness ==
    /\ pc = "done"
    /\ in_lines = <<P_desc_openssh, P_desc_a_eq_b, P_active_no_eq>>
    /\ result.value.description = Some(w_a_eq_b)
    /\ result.value.status = "Unknown"

\* C23: enabled is true exactly when the trimmed UnitFileState value is the
\* string "enabled", letter case included; Enabled, enabled-runtime, static
\* or no UnitFileState line give false.
C23_EnabledExactMatch ==
    pc = "done" =>
        result.value.enabled =
            (has_key(w_UnitFileState) /\ last_val(w_UnitFileState) = w_enabled)

C23_Witness ==
    /\ pc = "done"
    /\ in_lines = <<Prop(w_UnitFileState, w_enabled, <<>>), Prop(w_UnitFileState, w_Enabled, <<>>)>>
    /\ result.value.enabled = FALSE

(***************************************************************************)
(* The parsers of RemoteServiceManager, translated from their own text,    *)
(* and the call of a local parser and its remote namesake on one input.    *)
(***************************************************************************)
\* a remote parse_service_line that keeps the unit name as it is written
Remote_parse_service_line_keep_suffix(line) ==
    LET parts == split_whitespace(line)
    IN  IF Len(parts) < 4 THEN None
        ELSE LET active_state == parts[3]
             IN  Some([name        |-> parts[1],
                       status      |-> ServiceStatus_from(active_state),
                       description |-> IF Len(parts) > 4
                                       THEN Some(join(SubSeq(parts, 5, Len(parts)), <<" ">>))
                                       ELSE None,
                       enabled     |-> FALSE,
                       active      |-> (active_state = lit_active),
                       load_state  |-> parts[2],
                       sub_state   |-> parts[4]])

\* RemoteServiceManager::parse_service_line
Remote_parse_service_line(line) ==
    LET parts == split_whitespace(line)
    IN  IF Len(parts) < 4 THEN None
        ELSE LET active_state == parts[3]
             IN  Some([name        |-> trim_end_matches(parts[1], lit_service_suffix),
                       status      |-> ServiceStatus_from(active_state),
                       description |-> IF Len(parts) > 4
                                       THEN Some(join(SubSeq(parts, 5, Len(parts)), <<" ">>))
                                       ELSE None,
                       enabled     |-> FALSE,
                       active      |-> (active_state = lit_active),
                       load_state  |-> parts[2],
                       sub_state   |-> parts[4]])

\* the first loop of RemoteServiceManager::parse_service_list
RECURSIVE Remote_find_start_idx(_, _)
Remote_find_start_idx(ls, i) ==
    IF i > Len(ls) THEN 0
    ELSE IF starts_with(ls[i], lit_UNIT) THEN i
    ELSE Remote_find_start_idx(ls, i + 1)

\* the second loop of RemoteServiceManager::parse_service_list
RECURSIVE Remote_collect_services(_, _)
Remote_collect_services(ls, i) ==
    IF i > Len(ls) THEN <<>>
    ELSE IF trim(ls[i]) = <<>> \/ starts_with(ls[i], lit_LOAD) THEN <<>>
    ELSE LET service == Remote_parse_service_line(ls[i])
         IN  (IF service = None THEN <<>> ELSE <<service[1]>>)
             \o Remote_collect_services(ls, i + 1)

\* RemoteServiceManager::parse_service_list
Remote_parse_service_list(text) ==
    LET ls == lines(text)
        start_idx == Remote_find_start_idx(ls, 1)
    IN  Ok(Remote_collect_services(ls, start_idx + 1))

\* the loop of RemoteServiceManager::parse_service_status
RECURSIVE Remote_collect_properties(_, _, _)
Remote_collect_properties(ls, i, properties) ==
    IF i > Len(ls) THEN properties
    ELSE LET kv == split_once(ls[i], "=")
         IN  IF kv = None THEN Remote_collect_properties(ls, i + 1, properties)
             ELSE Remote_collect_properties(ls, i + 1,
                      hashmap_insert(properties, trim(kv[1][1]), trim(kv[1][2])))

\* RemoteServiceManager::parse_service_status
Remote_parse_service_status(name, text) ==
    LET properties == Remote_collect_properties(lines(text), 1, <<>>)
        active_state == unwrap_or(hashmap_get(properties, key_ActiveState), lit_unknown)
        sub_state == unwrap_or(hashmap_get(properties, key_SubState), lit_unknown)
        load_state == unwrap_or(hashmap_get(properties, key_LoadState), lit_unknown)
        unit_file_state == unwrap_or(hashmap_get(properties, key_UnitFileState), lit_unknown)
        description == hashmap_get(properties, key_Description)
    IN  Ok([name        |-> name,
            status      |-> ServiceStatus_from(active_state),
            description |-> description,
            enabled     |-> (unit_file_state = lit_enabled),
            active      |-> (active_state = lit_active),
            load_state  |-> load_state,
            sub_state   |-> sub_state])

InitParsers ==
    /\ \/ /\ pc = "call_list"
          /\ in_lines \in ListingInputs
          /\ output \in {render_text(in_lines, TRUE), render_text(in_lines, FALSE)}
          /\ service_name = <<>>
       \/ /\ pc = "call_status"
          /\ in_lines \in PropInputs
          /\ output \in {render_dump(in_lines, TRUE), render_dump(in_lines, FALSE)}
          /\ service_name \in NamePool
    /\ result = None
    /\ tasks = <<>>
    /\ connected = <<>>
    /\ NoCmd /\ NoUi
    /\ NoApp

\* parse_service_list of both managers on the same text
CallBothParseServiceList ==
    /\ pc = "call_list"
    /\ result' = [local |-> parse_service_list(output),
                  remote |-> Remote_parse_service_list(output)]
    /\ pc' = "done_list"
    /\ UNCHANGED <<in_lines, output, service_name, tasks, connected, cmd_vars, ui_vars, app_vars>>

\* parse_service_status of both managers on the same name and text
CallBothParseServiceStatus ==
    /\ pc = "call_status"
    /\ result' = [local |-> parse_service_status(service_name, output),
                  remote |-> Remote_parse_service_status(service_name, output)]
    /\ pc' = "done_status"
    /\ UNCHANGED <<in_lines, output, service_name, tasks, connected, cmd_vars, ui_vars, app_vars>>

NextParsers == CallBothParseServiceList \/ CallBothParseServiceStatus

SpecParsers == InitParsers /\ [][NextParsers]_vars

\* C24: on every text (and name) the parsers of RemoteServiceManager return
\* exactly what the parsers of ServiceManager return.
C24_RemoteParsersEqualLocal ==
    pc \in {"done_list", "done_status"} => result.remote = result.local

\* a listing with a doubly suffixed unit name, parsed by both into one Unit
C24_Witness ==
    /\ pc = "done_list"
    /\ in_lines = <<L_header5, L_double_suffix>>
    /\ Len(result.remote.value) = 1
    /\ result.remote.value[1].name = <<"a">>

(***************************************************************************)
(* A local operation whose task may be abandoned while a child process of  *)
(* it runs.  children holds, for each command issued, the state of its     *)
(* child process.  No Command of ServiceManager is given kill_on_drop, so  *)
(* dropping the future of output() or the Child of spawn() leaves the      *)
(* process alone.                                                          *)
(***************************************************************************)
ExitOutcomes == {o \in CommandOutcomes : o.kind # "spawn_error"}

InitCancel ==
    /\ pc = "call"
    /\ in_lines = <<>>
    /\ output = <<>>
    /\ service_name = <<>>
    /\ result = None
    /\ tasks = <<>>
    /\ connected = <<>>
    /\ call \in LocalCalls
    /\ issued = <<>>
    /\ outcomes = <<>>
    /\ NoUi
    /\ children = <<>>
    /\ local_services_store = <<>>
    /\ remote_hosts = <<>>
    /\ dialog = <<>>

\* the method builds its command and the child process is spawned
Spawn ==
    /\ pc = "call"
    /\ issued' = <<local_command(call)>>
    /\ children' = <<"running">>
    /\ pc' = IF call.op = "create_service_file" THEN "writing" ELSE "awaiting"
    /\ UNCHANGED <<in_lines, output, service_name, result, tasks, connected, call, outcomes,
                   ui_vars, local_services_store, remote_hosts, dialog>>

\* the child process cannot be spawned and the method returns the io error
SpawnFails(e) ==
    /\ pc = "call"
    /\ issued' = <<local_command(call)>>
    /\ outcomes' = <<Outcome("spawn_error", e)>>
    /\ result' = Err(io_error(e))
    /\ pc' = "done"
    /\ UNCHANGED <<in_lines, output, service_name, tasks, connected, call, ui_vars, app_vars>>

\* the child process the task waits for exits and the task goes on: a
\* one-command method returns; create_service_file spawns daemon-reload
\* after a successful write and returns otherwise
ChildExits(o) ==
    /\ pc \in {"awaiting", "writing", "reloading"}
    /\ outcomes' = Append(outcomes, o)
    /\ IF pc = "writing" /\ o.kind = "exit_success"
       THEN /\ issued' = Append(issued, local_command(Call("local", "daemon_reload", "", FALSE, None, "")))
            /\ children' = <<"exited", "running">>
            /\ pc' = "reloading"
            /\ UNCHANGED result
       ELSE /\ children' = [children EXCEPT ![Len(children)] = "exited"]
            /\ result' = IF pc = "writing" THEN write_error(o)
                         ELSE IF pc = "reloading"
                              THEN local_finish(Call("local", "daemon_reload", "", FALSE, None, ""), o)
                              ELSE local_finish(call, o)
            /\ pc' = "done"
            /\ UNCHANGED issued
    /\ UNCHANGED <<in_lines, output, service_name, tasks, connected, call,
                   ui_vars, local_services_store, remote_hosts, dialog>>

\* the caller drops the task while it waits for a child process: the future
\* and the Child in it are dropped, the process is not touched
Abandon ==
    /\ pc \in {"awaiting", "writing", "reloading"}
    /\ pc' = "abandoned"
    /\ UNCHANGED <<in_lines, output, service_name, result, tasks, connected, cmd_vars,
                   ui_vars, app_vars>>

\* the process of an abandoned task comes to its end by itself
OrphanExits ==
    /\ pc = "abandoned"
    /\ \E i \in 1..Len(children) :
          /\ children[i] = "running"
          /\ children' = [children EXCEPT ![i] = "exited"]
    /\ UNCHANGED <<pc, in_lines, output, service_name, result, tasks, connected, cmd_vars,
                   ui_vars, local_services_store, remote_hosts, dialog>>

NextCancel ==
    \/ Spawn
    \/ \E e \in OsErrors : SpawnFails(e)
    \/ \E o \in ExitOutcomes : ChildExits(o)
    \/ Abandon
    \/ OrphanExits

SpecCancel == InitCancel /\ [][NextCancel]_vars

\* C25: once the task of a local command has been abandoned, no child
\* process of it is running.
C25_AbandonedChildNotRunning ==
    pc = "abandoned" => \A i \in 1..Len(children) : children[i] # "running"

(***************************************************************************)
(* SystemdPilotApp::refresh_local_services: each request spawns a task     *)
(* that lists the local services and sends a successful result over its    *)
(* own channel; the receiver, run by the main loop, replaces the rows of   *)
(* local_services_store.  tasks holds one record per request; order is     *)
(* the rank of its delivery among the deliveries, 0 before it.             *)
(***************************************************************************)
MaxRefreshes == 3

\* results of list_local_services
Services_sshd == parse_service_list(render_text(<<L_header5, L_sshd>>, TRUE)).value

Services_foo_sshd ==
    parse_service_list(render_text(<<L_header5, L_foo_failed, L_sshd_again>>, TRUE)).value

ListingResults == {<<>>, Services_sshd, Services_foo_sshd}

\* Option::unwrap_or_default on an Option<String>
unwrap_or_default(opt) == IF opt = None THEN <<>> ELSE opt[1]

\* the rows the receiver appends: name, status.to_string(), description
store_rows(services) ==
    [i \in 1..Len(services) |->
        <<services[i].name, ServiceStatus_fmt(services[i].status),
          unwrap_or_default(services[i].description)>>]

RefreshTask(state, services, order) ==
    [state |-> state, services |-> services, order |-> order]

InitRefresh ==
    /\ pc = "main_loop"
    /\ in_lines = <<>>
    /\ output = <<>>
    /\ service_name = <<>>
    /\ result = None
    /\ tasks = <<>>
    /\ connected = <<>>
    /\ NoCmd /\ NoUi
    /\ NoApp

\* refresh_local_services: a channel is made, the listing task spawned and
\* the receiver attached
refresh_local_services ==
    /\ Len(tasks) < MaxRefreshes
    /\ tasks' = Append(tasks, RefreshTask("listing", <<>>, 0))
    /\ UNCHANGED <<pc, in_lines, output, service_name, result, connected, cmd_vars, ui_vars, app_vars>>

\* the listing of task t succeeds and the task sends the services
ListingSucceeds(t, services) ==
    /\ tasks[t].state = "listing"
    /\ tasks' = [tasks EXCEPT ![t] = RefreshTask("sent", services, 0)]
    /\ UNCHANGED <<pc, in_lines, output, service_name, result, connected, cmd_vars, ui_vars, app_vars>>

\* the listing of task t fails: the error is logged and nothing is sent
ListingFails(t) ==
    /\ tasks[t].state = "listing"
    /\ tasks' = [tasks EXCEPT ![t] = RefreshTask("failed", <<>>, 0)]
    /\ UNCHANGED <<pc, in_lines, output, service_name, result, connected, cmd_vars, ui_vars, app_vars>>

deliveries == Cardinality({t \in 1..Len(tasks) : tasks[t].state = "delivered"})

\* a receiver that appends the rows without clearing the store first
Receive_without_clear(t) ==
    /\ tasks[t].state = "sent"
    /\ local_services_store' = local_services_store \o store_rows(tasks[t].services)
    /\ tasks' = [tasks EXCEPT ![t] = RefreshTask("delivered", tasks[t].services, deliveries + 1)]
    /\ UNCHANGED <<pc, in_lines, output, service_name, result, connected, cmd_vars, ui_vars,
                   children, remote_hosts, dialog>>

\* the main loop runs the receiver of task t on the services sent: the
\* store is cleared and one row appended per service
Receive(t) ==
    /\ tasks[t].state = "sent"
    /\ local_services_store' = store_rows(tasks[t].services)
    /\ tasks' = [tasks EXCEPT ![t] = RefreshTask("delivered", tasks[t].services, deliveries + 1)]
    /\ UNCHANGED <<pc, in_lines, output, service_name, result, connected, cmd_vars, ui_vars,
                   children, remote_hosts, dialog>>

NextRefresh ==
    \/ refresh_local_services
    \/ \E t \in 1..Len(tasks) : \E services \in ListingResults : ListingSucceeds(t, services)
    \/ \E t \in 1..Len(tasks) : ListingFails(t)
    \/ \E t \in 1..Len(tasks) : Receive(t)

SpecRefresh == InitRefresh /\ [][NextRefresh]_vars

\* the task whose result was delivered last
last_delivered ==
    CHOOSE t \in 1..Len(tasks) : tasks[t].state = "delivered" /\ tasks[t].order = deliveries

\* C27: the store holds the rows of exactly one successful listing result,
\* in its order: the result delivered last, whichever request it belongs
\* to; with nothing delivered yet the store is as it was made, empty; a
\* failed listing delivers nothing.
C27_StoreIsLastDeliveredResult ==
    /\ deliveries = 0 => local_services_store = <<>>
    /\ deliveries > 0 =>
          /\ tasks[last_delivered].services \in ListingResults
          /\ local_services_store = store_rows(tasks[last_delivered].services)
          /\ Len(local_services_store) = Len(tasks[last_delivered].services)
    /\ \A t \in 1..Len(tasks) : tasks[t].state = "failed" => tasks[t].order = 0

\* the second request delivered first, then the first, a third one failed:
\* the store holds the rows of the first request
C27_Witness ==
    /\ Len(tasks) = 3
    /\ tasks[1].state = "delivered" /\ tasks[1].order = 2
    /\ tasks[2].state = "delivered" /\ tasks[2].order = 1
    /\ tasks[3].state = "failed"
    /\ tasks[1].services = Services_foo_sshd /\ tasks[2].services = Services_sshd
    /\ Len(local_services_store) = 2
    /\ local_services_store[1] = <<<<"f","o","o">>, fmt_Failed, <<>>>>

(***************************************************************************)
(* SystemdPilotApp::remote_hosts: made empty, replaced by the map read     *)
(* from hosts.json at startup, then changed by the host dialogs.  result   *)
(* records the last dialog response: what was entered and the map before.  *)
(***************************************************************************)
MaxDialogs == 2

FileKeys == {"web", "db"}

\* the hosts a hosts.json can hold under a key
FileHosts == {RemoteHost_new(n, "10.0.0.1", "root", AuthType_Password) : n \in FileKeys}

\* what load_hosts_from_config returns: an error, or the map of the file
\* as serde_json reads it (the empty map when there is no file)
HostFiles ==
    {Err("load")} \cup {Ok(m) : m \in UNION {[K -> FileHosts] : K \in SUBSET FileKeys}}

\* the texts of the entries when the user responds
NameTexts == {"", "web", "db", "backup"}

HostnameTexts == {"", "example.org"}

UsernameTexts == {"", "admin"}

KeyPathTexts == {"", "/keys/deploy"}

\* auth_combo.active(): Some(0) for Password, Some(1) for SSH Key
AuthChoices == {"Password", "SSH Key"}

Responses == {"Ok", "Cancel"}

is_empty(text) == text = ""

\* HashMap::remove
hashmap_remove(m, k) == [x \in (DOMAIN m) \ {k} |-> m[x]]

\* the auth_type the dialogs of ui/dialogs.rs build from combo and key entry
dialog_auth_type(choice, key_text) ==
    IF choice = "Password" THEN AuthType_Password
    ELSE AuthType_Key(IF is_empty(key_text) THEN None ELSE Some(key_text))

Entered(kind, old_name, response, name, hostname, username, choice, key_text) ==
    [n |-> result.n + 1, kind |-> kind, old_name |-> old_name, response |-> response,
     name |-> name, hostname |-> hostname, username |-> username,
     choice |-> choice, key_text |-> key_text, before |-> remote_hosts]

InitHosts ==
    /\ pc = "startup"
    /\ in_lines = <<>>
    /\ output = <<>>
    /\ service_name = <<>>
    /\ result = [n |-> 0]
    /\ tasks = <<>>
    /\ connected = <<>>
    /\ NoCmd /\ NoUi
    /\ NoApp

\* load_saved_hosts: the map of the file replaces remote_hosts
load_saved_hosts(file) ==
    /\ pc = "startup"
    /\ remote_hosts' = IF file.ok THEN file.value ELSE remote_hosts
    /\ pc' = "idle"
    /\ UNCHANGED <<in_lines, output, service_name, result, tasks, connected, cmd_vars, ui_vars,
                   children, local_services_store, dialog>>

\* the Add Host button: show_add_host_dialog of app.rs
ShowAddHostDialogApp ==
    /\ pc = "idle" /\ result.n < MaxDialogs
    /\ dialog' = [kind |-> "add_app", old_name |-> ""]
    /\ pc' = "dialog"
    /\ UNCHANGED <<in_lines, output, service_name, result, tasks, connected, cmd_vars, ui_vars,
                   children, local_services_store, remote_hosts>>

\* show_add_host_dialog of ui/dialogs.rs
ShowAddHostDialog ==
    /\ pc = "idle" /\ result.n < MaxDialogs
    /\ dialog' = [kind |-> "add", old_name |-> ""]
    /\ pc' = "dialog"
    /\ UNCHANGED <<in_lines, output, service_name, result, tasks, connected, cmd_vars, ui_vars,
                   children, local_services_store, remote_hosts>>

\* show_edit_host_dialog for the host stored under key k
ShowEditHostDialog(k) ==
    /\ pc = "idle" /\ result.n < MaxDialogs
    /\ k \in DOMAIN remote_hosts
    /\ dialog' = [kind |-> "edit", old_name |-> remote_hosts[k].name]
    /\ pc' = "dialog"
    /\ UNCHANGED <<in_lines, output, service_name, result, tasks, connected, cmd_vars, ui_vars,
                   children, local_services_store, remote_hosts>>

\* the response of the add dialog of app.rs (dialog.run() returns)
AddHostResponseApp(response, name, hostname, username, choice) ==
    /\ pc = "dialog" /\ dialog.kind = "add_app"
    /\ LET auth_type == IF choice = "Password" THEN AuthType_Password ELSE AuthType_Key(None)
       IN  remote_hosts' =
              IF response = "Ok" /\ ~is_empty(name) /\ ~is_empty(hostname) /\ ~is_empty(username)
              THEN hashmap_insert(remote_hosts, name,
                                  RemoteHost_new(name, hostname, username, auth_type))
              ELSE remote_hosts
    /\ result' = Entered("add_app", "", response, name, hostname, username, choice, "")
    /\ dialog' = <<>>
    /\ pc' = "idle"
    /\ UNCHANGED <<in_lines, output, service_name, tasks, connected, cmd_vars, ui_vars,
                   children, local_services_store>>

\* the response handler of the add dialog of ui/dialogs.rs
AddHostResponse(response, name, hostname, username, choice, key_text) ==
    /\ pc = "dialog" /\ dialog.kind = "add"
    /\ remote_hosts' =
          IF response = "Ok" /\ ~is_empty(name) /\ ~is_empty(hostname) /\ ~is_empty(username)
          THEN hashmap_insert(remote_hosts, name,
                   RemoteHost_new(name, hostname, username, dialog_auth_type(choice, key_text)))
          ELSE remote_hosts
    /\ result' = Entered("add", "", response, name, hostname, username, choice, key_text)
    /\ dialog' = <<>>
    /\ pc' = "idle"
    /\ UNCHANGED <<in_lines, output, service_name, tasks, connected, cmd_vars, ui_vars,
                   children, local_services_store>>

\* an edit response handler that inserts without removing the old entry
EditHostResponse_keep_old(response, new_name, hostname, username, choice, key_text) ==
    /\ pc = "dialog" /\ dialog.kind = "edit"
    /\ remote_hosts' =
          IF response = "Ok" /\ ~is_empty(new_name) /\ ~is_empty(hostname) /\ ~is_empty(username)
          THEN hashmap_insert(remote_hosts, new_name,
                   RemoteHost_new(new_name, hostname, username, dialog_auth_type(choice, key_text)))
          ELSE remote_hosts
    /\ result' = Entered("edit", dialog.old_name, response, new_name, hostname, username, choice, key_text)
    /\ dialog' = <<>>
    /\ pc' = "idle"
    /\ UNCHANGED <<in_lines, output, service_name, tasks, connected, cmd_vars, ui_vars,
                   children, local_services_store>>

\* the response handler of the edit dialog: remove(&old_name), then
\* insert(new_name, new_host)
EditHostResponse(response, new_name, hostname, username, choice, key_text) ==
    /\ pc = "dialog" /\ dialog.kind = "edit"
    /\ remote_hosts' =
          IF response = "Ok" /\ ~is_empty(new_name) /\ ~is_empty(hostname) /\ ~is_empty(username)
          THEN hashmap_insert(hashmap_remove(remote_hosts, dialog.old_name), new_name,
                   RemoteHost_new(new_name, hostname, username, dialog_auth_type(choice, key_text)))
          ELSE remote_hosts
    /\ result' = Entered("edit", dialog.old_name, response, new_name, hostname, username, choice, key_text)
    /\ dialog' = <<>>
    /\ pc' = "idle"
    /\ UNCHANGED <<in_lines, output, service_name, tasks, connected, cmd_vars, ui_vars,
                   children, local_services_store>>

NextHosts ==
    \/ \E file \in HostFiles : load_saved_hosts(file)
    \/ ShowAddHostDialogApp
    \/ ShowAddHostDialog
    \/ \E k \in FileKeys \cup NameTexts : ShowEditHostDialog(k)
    \/ \E response \in Responses, name \in NameTexts, hostname \in HostnameTexts,
          username \in UsernameTexts, choice \in AuthChoices :
          AddHostResponseApp(response, name, hostname, username, choice)
    \/ \E response \in Responses, name \in NameTexts, hostname \in HostnameTexts,
          username \in UsernameTexts, choice \in AuthChoices, key_text \in KeyPathTexts :
          AddHostResponse(response, name, hostname, username, choice, key_text)
    \/ \E response \in Responses, name \in NameTexts, hostname \in HostnameTexts,
          username \in UsernameTexts, choice \in AuthChoices, key_text \in KeyPathTexts :
          EditHostResponse(response, name, hostname, username, choice, key_text)

SpecHosts == InitHosts /\ [][NextHosts]_vars

\* the last response confirmed a dialog of the kind with all three fields
confirmed_with_fields(kinds) ==
    /\ result.n > 0 /\ result.kind \in kinds
    /\ result.response = "Ok"
    /\ result.name # "" /\ result.hostname # "" /\ result.username # ""

\* the last response left the map alone: Cancel, or one of the fields empty
declined(kinds) ==
    /\ result.n > 0 /\ result.kind \in kinds
    /\ (result.response # "Ok"
        \/ result.name = "" \/ result.hostname = "" \/ result.username = "")

size(m) == Cardinality(DOMAIN m)

\* C28: a confirmed edit with the three fields non-empty leaves the new
\* host under the new name, no entry under the old name unless it is the
\* new name, and every other entry as it was; when the new name is the key
\* of another host, that host is overwritten and the map, which had the
\* edited host under its old name, is one entry smaller; Cancel or an empty
\* field leaves the map as it was.
C28_EditReplacesOldEntry ==
    /\ (pc = "idle" /\ confirmed_with_fields({"edit"})) =>
          /\ result.name \in DOMAIN remote_hosts
          /\ remote_hosts[result.name].name = result.name
          /\ remote_hosts[result.name].hostname = result.hostname
          /\ remote_hosts[result.name].username = result.username
          /\ result.old_name # result.name => result.old_name \notin DOMAIN remote_hosts
          /\ DOMAIN remote_hosts = ((DOMAIN result.before) \ {result.old_name}) \cup {result.name}
          /\ \A k \in (DOMAIN result.before) \ {result.old_name, result.name} :
                remote_hosts[k] = result.before[k]
          /\ (result.name # result.old_name /\ result.name \in DOMAIN result.before
                /\ result.old_name \in DOMAIN result.before)
                => size(remote_hosts) = size(result.before) - 1
    /\ (pc = "idle" /\ declined({"edit"})) =>
          /\ DOMAIN remote_hosts = DOMAIN result.before
          /\ \A k \in DOMAIN remote_hosts : remote_hosts[k] = result.before[k]

\* the host web renamed to db while another host db exists: one entry left
C28_Witness ==
    /\ pc = "idle" /\ confirmed_with_fields({"edit"})
    /\ result.old_name = "web" /\ result.name = "db"
    /\ DOMAIN result.before = {"web", "db"}
    /\ result.before["web"].name = "web"
    /\ DOMAIN remote_hosts = {"db"}
    /\ remote_hosts["db"].hostname = "example.org"

\* the add dialogs, on their own: an insert only with the three fields
add_dialog_inserts ==
    /\ (pc = "idle" /\ confirmed_with_fields({"add", "add_app"})) =>
          /\ DOMAIN remote_hosts = (DOMAIN result.before) \cup {result.name}
          /\ remote_hosts[result.name].name = result.name
          /\ remote_hosts[result.name].hostname = result.hostname
          /\ remote_hosts[result.name].username = result.username
          /\ \A k \in (DOMAIN result.before) \ {result.name} :
                remote_hosts[k] = result.before[k]
          /\ size(remote_hosts) =
                size(result.before) + (IF result.name \in DOMAIN result.before THEN 0 ELSE 1)
    /\ (pc = "idle" /\ declined({"add", "add_app"})) =>
          /\ DOMAIN remote_hosts = DOMAIN result.before
          /\ \A k \in DOMAIN remote_hosts : remote_hosts[k] = result.before[k]

\* C29: a confirmed add dialog inserts only with name, hostname and
\* username all non-empty, the map then holding the new host under its name
\* and being one larger, or as large when the name was there already;
\* Cancel or an empty field leaves the map as it was; and in every
\* reachable state the key of each entry is the name of its host.
C29_AddInsertsAndKeysAreNames ==
    /\ add_dialog_inserts
    /\ \A k \in DOMAIN remote_hosts : remote_hosts[k].name = k

(***************************************************************************)
(* show_confirmation_dialog: the title and message it is given, the        *)
(* response the user would give to the question, and what it returns.      *)
(***************************************************************************)
Titles == {"", "Stop service", "Disable service", "Remove host"}

Messages == {"", "Are you sure?", "Stop sshd?", "Disable sshd?", "Remove web?"}

\* ResponseType of the buttons Cancel and Confirm, and of closing the window
ConfirmResponses == {"Cancel", "Accept", "DeleteEvent"}

InitConfirm ==
    /\ pc = "call"
    /\ in_lines = <<>>
    /\ output = <<>>
    /\ service_name = <<>>
    /\ result = None
    /\ tasks = <<>>
    /\ connected = <<>>
    /\ call \in [title : Titles, message : Messages, response : ConfirmResponses]
    /\ issued = <<>>
    /\ outcomes = <<>>
    /\ NoUi
    /\ NoApp

\* a show_confirmation_dialog that shows the dialog and returns the answer
show_confirmation_dialog_waits ==
    /\ pc = "call"
    /\ dialog' = [kind |-> "confirmation", title |-> call.title, message |-> call.message,
                  buttons |-> <<"Cancel", "Confirm">>, shown |-> TRUE]
    /\ result' = (call.response = "Accept")
    /\ pc' = "done"
    /\ UNCHANGED <<in_lines, output, service_name, tasks, connected, cmd_vars, ui_vars,
                   children, local_services_store, remote_hosts>>

\* show_confirmation_dialog: the MessageDialog is built, given its title and
\* two buttons, never shown, and true is returned
show_confirmation_dialog ==
    /\ pc = "call"
    /\ dialog' = [kind |-> "confirmation", title |-> call.title, message |-> call.message,
                  buttons |-> <<"Cancel", "Confirm">>, shown |-> FALSE]
    /\ result' = TRUE
    /\ pc' = "done"
    /\ UNCHANGED <<in_lines, output, service_name, tasks, connected, cmd_vars, ui_vars,
                   children, local_services_store, remote_hosts>>

NextConfirm == show_confirmation_dialog

SpecConfirm == InitConfirm /\ [][NextConfirm]_vars

\* C30: show_confirmation_dialog returns true for every title, message and
\* response the user would give, Cancel included, and returns without
\* having shown the dialog.
C30_ConfirmationAlwaysTrue ==
    pc = "done" => (result = TRUE /\ ~dialog.shown)

C30_Witness ==
    /\ pc = "done" /\ call.response = "Cancel"
    /\ call.title = "Remove host" /\ call.message = "Remove web?"
    /\ result = TRUE

=============================================================================
